---------------------------- MODULE Spec2Model ----------------------------
(***************************************************************************)
(* A model of poly-racer's race progression: Game (js/game/Game.js), Timer *)
(* and GhostCar (js/game/GhostCar.js), the checkpoint and boost queries of *)
(* CollisionSystem, the two track builders, the Engine frame loop and the  *)
(* menu and input callbacks of main.js.                                    *)
(*                                                                         *)
(* Time is counted in units of 1/120 s, so that the engine's fixed step    *)
(* (1/60 s), the ghost sampling interval (50 ms) and the frame cap         *)
(* (100 ms) are the integers 2, 6 and 12.  performance.now() is the        *)
(* variable now.                                                           *)
(*                                                                         *)
(* The handlers are sequential code over several objects; each is written  *)
(* as an operator from a world (a record of the objects) to the world      *)
(* after the call, and an action applies the handler of one event.         *)
(***************************************************************************)
EXTENDS Integers, Sequences, FiniteSets, TLC

VARIABLES
    now,            \* performance.now()
    game,           \* the Game object
    timer,          \* game.timer
    ghostCar,       \* the GhostCar object
    physics,        \* the VehiclePhysics pose
    collision,      \* the CollisionSystem zone lists
    localStorage,   \* the browser's persistent key/value store
    heap,           \* the ghost trajectory arrays, by reference
    engine,         \* the Engine object
    menu,           \* the Menu screen and the fetches in flight
    trackFiles,     \* tracks/<id>.json as served
    cb,             \* the observer callbacks fired by the last handler, in order
    last,           \* the last event and what Game.update read in it
    pair            \* a second run of the program, for comparing two runs

vars == <<now, game, timer, ghostCar, physics, collision, localStorage, heap,
          engine, menu, trackFiles, cb, last, pair>>

(***************************************************************************)
(* Bounds of the model and constants of the program.                       *)
(***************************************************************************)
MaxNow == 12

FixedDeltaTime == 2

RecordInterval == 6

MaxFrameDelta == 12

\* null and NaN of a JavaScript number field
Null == -1

NaN == -2

TrackIds == {"track1", "track2"}

\* render-frame durations the browser may deliver
FrameDurations == {2, 6}

\* heights in half metres: reset drops the vehicle from 0.5 above the pose it
\* is given; the suspension holds it 0.5 above the ground; TrackBuilder spawns
\* at 0.5 and SplineTrackBuilder 2 above the start of the curve
ResetLift == 1
SuspensionHeight == 1
SpawnHeight == 1
SplineSpawnHeight == 4

\* What the vehicle can be near: 0 is open road, p >= 1 is the p-th zone
\* laid along the track.
Positions == 0 .. 3

\* headings, in units of pi
Yaws == {0, 1}

(***************************************************************************)
(* Number <-> string, as Timer.saveBestTime and Timer.checkBestTime use    *)
(* them.  A string is a sequence of one-character strings.                 *)
(***************************************************************************)
Digits == <<"0", "1", "2", "3", "4", "5", "6", "7", "8", "9">>

RECURSIVE toString(_)
toString(n) ==
    IF n < 10 THEN <<Digits[n + 1]>>
    ELSE toString(n \div 10) \o <<Digits[(n % 10) + 1]>>

DigitValue(c) == CHOOSE d \in 0 .. 9 : Digits[d + 1] = c

IsDigit(c) == \E d \in 0 .. 9 : Digits[d + 1] = c

\* the digits s starts with
RECURSIVE NumericPrefix(_)
NumericPrefix(s) ==
    IF s = <<>> \/ ~IsDigit(Head(s)) THEN <<>>
    ELSE <<Head(s)>> \o NumericPrefix(Tail(s))

RECURSIVE DigitsValue(_)
DigitsValue(s) ==
    IF s = <<>> THEN 0
    ELSE 10 * DigitsValue(SubSeq(s, 1, Len(s) - 1)) + DigitValue(s[Len(s)])

parseFloat(s) ==
    IF NumericPrefix(s) = <<>> THEN NaN ELSE DigitsValue(NumericPrefix(s))

\* a < b of two JavaScript numbers: false when either is NaN
NumLess(a, b) == a # NaN /\ b # NaN /\ a < b

(***************************************************************************)
(* JSON text of a ghost trajectory.  stringify copies the frames into the  *)
(* text; parse builds a new array from it, or throws.                      *)
(***************************************************************************)
JSON_stringify(data) == [ok |-> TRUE, frames |-> data]

JSON_parseThrows(text) == ~text.ok

JSON_parse(text) == text.frames

BestKey(trackId) == <<"polyracer_best_", trackId>>

GhostKey(trackId) == <<"polyracer_ghost_", trackId>>

\* localStorage.getItem(key) is a non-empty string
HasItem(ls, key) == key \in DOMAIN ls

setItem(ls, key, value) ==
    [k \in DOMAIN ls \cup {key} |-> IF k = key THEN value ELSE ls[k]]

(***************************************************************************)
(* Timer                                                                   *)
(***************************************************************************)
Timer_new ==
    [startTime |-> 0, currentTime |-> 0, lapTimes |-> <<>>, bestTime |-> Null,
     isRunning |-> FALSE, currentLap |-> 0, totalLaps |-> 1, lapStartTime |-> 0]

Timer_start(t, clock) ==
    [t EXCEPT !.startTime = clock, !.lapStartTime = clock, !.currentTime = 0,
              !.lapTimes = <<>>, !.currentLap = 1, !.isRunning = TRUE]

Timer_stop(t, clock) ==
    IF t.isRunning
    THEN [t EXCEPT !.currentTime = clock - t.startTime, !.isRunning = FALSE]
    ELSE t

Timer_reset(t) ==
    [t EXCEPT !.startTime = 0, !.currentTime = 0, !.lapTimes = <<>>,
              !.currentLap = 0, !.isRunning = FALSE]

Timer_update(t, clock) ==
    IF t.isRunning THEN [t EXCEPT !.currentTime = clock - t.startTime] ELSE t

Timer_recordLap(t, clock) ==
    IF ~t.isRunning THEN t
    ELSE [t EXCEPT !.lapTimes = Append(@, clock - t.lapStartTime),
                   !.lapStartTime = clock,
                   !.currentLap = @ + 1]

Timer_getTime(t) == t.currentTime

Timer_checkBestTime(t, ls, trackId) ==
    IF HasItem(ls, BestKey(trackId)) /\ ls[BestKey(trackId)] # <<>>
    THEN [t EXCEPT !.bestTime = parseFloat(ls[BestKey(trackId)])]
    ELSE [t EXCEPT !.bestTime = Null]

\* a variant of the record test that also takes a tie for a record
Timer_isNewRecordOrTie(t, time) ==
    t.bestTime = Null \/ NumLess(time, t.bestTime) \/ time = t.bestTime

\* the condition under which saveBestTime stores the time and returns true
Timer_isNewRecord(t, time) == t.bestTime = Null \/ NumLess(time, t.bestTime)

Timer_saveBestTime(w, trackId, time) ==
    IF Timer_isNewRecord(w.timer, time)
    THEN [w EXCEPT !.localStorage = setItem(@, BestKey(trackId), toString(time)),
                   !.timer.bestTime = time]
    ELSE w

(***************************************************************************)
(* The heap of trajectory arrays.  Two fields hold array references:       *)
(* ghostCar.recordedData and game.currentGhostData (0 is null).  A frame   *)
(* is [time, position, quaternion].                                        *)
(***************************************************************************)
Refs == {1, 2, 3}

NullRef == 0

LiveRefs(w) == {w.ghostCar.recordedData, w.game.currentGhostData} \ {NullRef}

\* a new array object
NewRef(w) == CHOOSE r \in Refs \ LiveRefs(w) : \A q \in Refs \ LiveRefs(w) : r <= q

\* Arrays nothing refers to any more are collected, and the references are
\* renamed in order of first use (recordedData, then currentGhostData).
Collect(w) ==
    LET rd == w.ghostCar.recordedData
        cg == w.game.currentGhostData
        nrd == 1
        ncg == IF cg = NullRef THEN NullRef ELSE IF cg = rd THEN 1 ELSE 2
    IN [w EXCEPT !.heap = [r \in Refs |-> IF r = nrd THEN w.heap[rd]
                                          ELSE IF r = ncg THEN w.heap[cg]
                                          ELSE <<>>],
                 !.ghostCar.recordedData = nrd,
                 !.game.currentGhostData = ncg]

(***************************************************************************)
(* GhostCar                                                                *)
(***************************************************************************)
NoPose == [a |-> 0, b |-> 0, num |-> 0, den |-> 1]

GhostCar_new ==
    [isRecording |-> FALSE, isPlaying |-> FALSE, recordedData |-> 1,
     playbackIndex |-> 0, lastRecordTime |-> 0,
     meshVisible |-> FALSE, meshPosition |-> NoPose, meshQuaternion |-> NoPose]

GhostCar_startRecording(w) ==
    LET r == NewRef(w)
    IN [w EXCEPT !.heap[r] = <<>>,
                 !.ghostCar.recordedData = r,
                 !.ghostCar.isRecording = TRUE,
                 !.ghostCar.lastRecordTime = 0]

\* returns this.recordedData, the reference
GhostCar_stopRecording(w) == [w EXCEPT !.ghostCar.isRecording = FALSE]

\* a variant that records every frame it is given while recording
GhostCar_recordFrameAlways(w, position, quaternion, time) ==
    IF ~w.ghostCar.isRecording THEN w
    ELSE [w EXCEPT !.heap[w.ghostCar.recordedData] =
                       Append(@, [time |-> time, position |-> position,
                                  quaternion |-> quaternion]),
                   !.ghostCar.lastRecordTime = time]

GhostCar_recordFrame(w, position, quaternion, time) ==
    IF ~w.ghostCar.isRecording THEN w
    ELSE IF time - w.ghostCar.lastRecordTime < RecordInterval THEN w
    ELSE [w EXCEPT !.heap[w.ghostCar.recordedData] =
                        Append(@, [time |-> time, position |-> position,
                                   quaternion |-> quaternion]),
                   !.ghostCar.lastRecordTime = time]

GhostCar_stopPlayback(w) ==
    [w EXCEPT !.ghostCar.isPlaying = FALSE, !.ghostCar.meshVisible = FALSE]

\* a variant that also returns early on a single frame
GhostCar_startPlaybackGuarded(w, data) ==
    LET w1 == IF data # NullRef THEN [w EXCEPT !.ghostCar.recordedData = data] ELSE w
    IN IF Len(w1.heap[w1.ghostCar.recordedData]) <= 1
       THEN [w1 EXCEPT !.ghostCar.isPlaying = FALSE]
       ELSE [w1 EXCEPT !.ghostCar.isPlaying = TRUE, !.ghostCar.playbackIndex = 0,
                       !.ghostCar.meshVisible = TRUE]

GhostCar_startPlayback(w, data) ==
    LET w1 == IF data # NullRef THEN [w EXCEPT !.ghostCar.recordedData = data]
              ELSE w
    IN IF Len(w1.heap[w1.ghostCar.recordedData]) = 0
       THEN [w1 EXCEPT !.ghostCar.isPlaying = FALSE]
       ELSE [w1 EXCEPT !.ghostCar.isPlaying = TRUE,
                       !.ghostCar.playbackIndex = 0,
                       !.ghostCar.meshVisible = TRUE]

\* the while loop of update; indices are those of the JavaScript array
RECURSIVE FindFrame(_, _, _)
FindFrame(data, index, currentTime) ==
    IF index < Len(data) - 1 /\ data[index + 2].time <= currentTime
    THEN FindFrame(data, index + 1, currentTime)
    ELSE index

\* a variant of the clamp that takes a ratio over 0 for NaN
ClampedTStrict(num, den) ==
    IF den = 0 THEN [num |-> 0, den |-> 0]
    ELSE IF (num < 0) # (den < 0) /\ num # 0 THEN [num |-> 0, den |-> 1]
    ELSE IF (IF num < 0 THEN -num ELSE num) >= (IF den < 0 THEN -den ELSE den)
         THEN [num |-> 1, den |-> 1]
    ELSE IF num = 0 THEN [num |-> 0, den |-> 1]
    ELSE [num |-> (IF num < 0 THEN -num ELSE num),
          den |-> (IF den < 0 THEN -den ELSE den)]

\* Math.max(0, Math.min(1, num / den)) as a fraction; 0/0 is NaN and stays NaN
ClampedT(num, den) ==
    IF den = 0 THEN (IF num = 0 THEN [num |-> 0, den |-> 0]
                     ELSE IF num > 0 THEN [num |-> 1, den |-> 1]
                     ELSE [num |-> 0, den |-> 1])
    ELSE IF (num < 0) # (den < 0) /\ num # 0 THEN [num |-> 0, den |-> 1]
    ELSE IF (IF num < 0 THEN -num ELSE num) >= (IF den < 0 THEN -den ELSE den)
         THEN [num |-> 1, den |-> 1]
    ELSE IF num = 0 THEN [num |-> 0, den |-> 1]
    ELSE [num |-> (IF num < 0 THEN -num ELSE num),
          den |-> (IF den < 0 THEN -den ELSE den)]

\* a + (b - a) * t, kept symbolic
Lerp(a, b, t) == [a |-> a, b |-> b, num |-> t.num, den |-> t.den]

\* the ratio t of update, as a fraction
Ratio(frame1, frame2, currentTime) ==
    [evaluated |-> TRUE, num |-> currentTime - frame1.time,
     den |-> frame2.time - frame1.time]

GhostCar_update(w, currentTime) ==
    LET data == w.heap[w.ghostCar.recordedData]
    IN IF ~w.ghostCar.isPlaying \/ Len(data) = 0 THEN w
       ELSE LET index == FindFrame(data, w.ghostCar.playbackIndex, currentTime)
                w1 == [w EXCEPT !.ghostCar.playbackIndex = index]
            IN IF index >= Len(data) - 1 THEN GhostCar_stopPlayback(w1)
               ELSE LET frame1 == data[index + 1]
                        frame2 == data[index + 2]
                        t == Ratio(frame1, frame2, currentTime)
                        clampedT == ClampedT(t.num, t.den)
                    IN [w1 EXCEPT
                          !.ghostCar.meshPosition =
                              Lerp(frame1.position, frame2.position, clampedT),
                          !.ghostCar.meshQuaternion =
                              Lerp(frame1.quaternion, frame2.quaternion, clampedT)]

\* a variant of saveGhost that keeps a single ghost, under the first track's key
GhostCar_saveGhostSingle(w, trackId, data) ==
    [w EXCEPT !.localStorage =
                  setItem(@, GhostKey("track1"), JSON_stringify(w.heap[data]))]

GhostCar_saveGhost(w, trackId, data) ==
    [w EXCEPT !.localStorage =
                  setItem(@, GhostKey(trackId), JSON_stringify(w.heap[data]))]

\* loadGhost returns a new array, or null; GhostCar_loadGhost is the world
\* with the array allocated and GhostCar_loadGhostRef the reference returned
GhostCar_loadGhostFound(w, trackId) ==
    /\ HasItem(w.localStorage, GhostKey(trackId))
    /\ ~JSON_parseThrows(w.localStorage[GhostKey(trackId)])

GhostCar_loadGhostRef(w, trackId) ==
    IF GhostCar_loadGhostFound(w, trackId) THEN NewRef(w) ELSE NullRef

GhostCar_loadGhost(w, trackId) ==
    IF GhostCar_loadGhostFound(w, trackId)
    THEN [w EXCEPT !.heap[NewRef(w)] = JSON_parse(w.localStorage[GhostKey(trackId)])]
    ELSE w

(***************************************************************************)
(* Track data and the two builders.  A track file has the spline's control *)
(* points (only their number matters here), the piece list and the lap     *)
(* count; a field the file lacks is 0 or the empty list.  A zone is        *)
(* identified with its place along the track: checkpoint or boost zone z   *)
(* contains exactly the vehicle position z.                                *)
(***************************************************************************)
NoTrack == [points |-> 0, pieces |-> <<>>, laps |-> 0]

CollisionSystem_new ==
    [trackMeshes |-> 0, barrierMeshes |-> 0, boostPads |-> <<>>, checkpoints |-> <<>>]

CollisionSystem_clear(c) == CollisionSystem_new

CollisionSystem_addCheckpoint(c, zone, index, isFinish) ==
    [c EXCEPT !.checkpoints =
                  Append(@, [zone |-> zone, index |-> index, isFinish |-> isFinish])]

CollisionSystem_addBoostPad(c, zone) ==
    [c EXCEPT !.boostPads = Append(@, [zone |-> zone])]

NoHit == [hit |-> FALSE, index |-> 0, isFinish |-> FALSE]

\* the first checkpoint, in list order, whose bounds contain the position
RECURSIVE CollisionSystem_checkCheckpoint(_, _)
CollisionSystem_checkCheckpoint(cps, position) ==
    IF cps = <<>> THEN NoHit
    ELSE IF Head(cps).zone = position
         THEN [hit |-> TRUE, index |-> Head(cps).index, isFinish |-> Head(cps).isFinish]
    ELSE CollisionSystem_checkCheckpoint(Tail(cps), position)

CollisionSystem_checkBoostPad(c, position) ==
    \E i \in 1 .. Len(c.boostPads) : c.boostPads[i].zone = position

\* SplineTrackBuilder.build: undefined for fewer than 2 points, else a
\* checkpoint every 3 control points, the first one (on the spawn point)
\* being the finish
SplineTrackBuilder_returns(trackData) == trackData.points >= 2

RECURSIVE SplineCheckpoints(_, _, _, _)
SplineCheckpoints(c, i, totalPoints, count) ==
    IF i >= totalPoints THEN c
    ELSE SplineCheckpoints(
             CollisionSystem_addCheckpoint(c, count + 1, count, i = 0),
             i + 3, totalPoints, count + 1)

SplineTrackBuilder_build(c, trackData) ==
    IF trackData.points < 2 THEN CollisionSystem_clear(c)
    ELSE SplineCheckpoints([CollisionSystem_clear(c) EXCEPT !.trackMeshes = 1],
                           0, trackData.points, 0)

\* the spawn point is the start of the curve, inside checkpoint 0's zone
SplineTrackBuilder_info(c) ==
    [spawnPosition |-> 1, spawnPositionY |-> SplineSpawnHeight, spawnRotation |-> 0,
     checkpointCount |-> Len(c.checkpoints)]

\* TrackBuilder.build: one piece after the other; piece i lies at place i
RECURSIVE TrackBuilder_buildPieces(_, _, _)
TrackBuilder_buildPieces(c, pieces, i) ==
    IF i > Len(pieces) THEN c
    ELSE TrackBuilder_buildPieces(
             CASE pieces[i] = "checkpoint" ->
                      CollisionSystem_addCheckpoint(c, i, Len(c.checkpoints), FALSE)
               [] pieces[i] = "finish" ->
                      CollisionSystem_addCheckpoint(c, i, Len(c.checkpoints), TRUE)
               [] pieces[i] = "boost" ->
                      [CollisionSystem_addBoostPad(c, i) EXCEPT !.trackMeshes = @ + 1]
               [] pieces[i] = "straight" ->
                      [c EXCEPT !.trackMeshes = @ + 1, !.barrierMeshes = @ + 2]
               [] OTHER -> [c EXCEPT !.trackMeshes = @ + 1],
             pieces, i + 1)

TrackBuilder_build(c, trackData) ==
    TrackBuilder_buildPieces(CollisionSystem_clear(c), trackData.pieces, 1)

\* the spawn point lies before the first piece; the car faces Math.PI
TrackBuilder_info(c) ==
    [spawnPosition |-> 0, spawnPositionY |-> SpawnHeight, spawnRotation |-> 1,
     checkpointCount |-> Len(c.checkpoints)]

\* this.trackBuilder.build(trackData) of whichever builder main.js linked
Builder_build(builder, c, trackData) ==
    IF builder = "SplineTrackBuilder" THEN SplineTrackBuilder_build(c, trackData)
    ELSE TrackBuilder_build(c, trackData)

Builder_returns(builder, trackData) ==
    builder = "SplineTrackBuilder" => SplineTrackBuilder_returns(trackData)

Builder_info(builder, c) ==
    IF builder = "SplineTrackBuilder" THEN SplineTrackBuilder_info(c)
    ELSE TrackBuilder_info(c)

(***************************************************************************)
(* VehiclePhysics: the pose and the forward speed.  position is the place  *)
(* along the track and positionY the height position.y, in half metres;    *)
(* speed is 0 at rest and 1 in motion.  physics.update moves the vehicle   *)
(* to any place.                                                           *)
(***************************************************************************)
VehiclePhysics_new == [position |-> 0, positionY |-> 0, rotation |-> 0, speed |-> 0]

\* position.copy(position); position.y = position.y + 0.5; the velocities zeroed
VehiclePhysics_reset(position, positionY, rotation) ==
    [position |-> position, positionY |-> positionY + ResetLift,
     rotation |-> rotation, speed |-> 0]

\* quaternion.setFromEuler(rotation): the heading determines it
Quaternion(ph) == ph.rotation

(***************************************************************************)
(* What Game.update read in a tick, kept for stating the properties: the   *)
(* checkpoint query's answer and, when it hit, the cursor, lap, splits and *)
(* cached pose handleCheckpoint found and the vehicle's pose; the accepted *)
(* hits since the race started or the finish line was last accepted        *)
(* (lapHits); and the zones hit tick after tick since the race started,    *)
(* while they follow one of the scenarios the properties name (trail).     *)
(***************************************************************************)
Off == <<Null>>

Scenarios == {<<0, 1, 2, 0, 1, 2>>, <<1, 2>>}

IsPrefix(s, t) == Len(s) <= Len(t) /\ SubSeq(t, 1, Len(s)) = s

Follow(trail, index) ==
    IF trail # Off /\ \E sc \in Scenarios : IsPrefix(Append(trail, index), sc)
    THEN Append(trail, index)
    ELSE Off

\* no call of resetToCheckpoint in the handler
NoReset == [called |-> FALSE, from |-> <<>>, to |-> <<>>]

\* the control input with every field zero
ZeroInput == [throttle |-> 0, brake |-> 0, steer |-> 0, drift |-> FALSE]

\* (played is the track the last Play click asked for)
NoPlayback == [started |-> FALSE, frames |-> 0, isPlaying |-> FALSE, meshVisible |-> FALSE]

NoObs ==
    [op |-> "init", ticked |-> FALSE, checkpoint |-> NoHit,
     cursor |-> 0, lap |-> 0, splits |-> <<>>,
     cachedPosition |-> 0, cachedRotation |-> 0, pose |-> VehiclePhysics_new,
     lapHits |-> <<>>, trail |-> <<>>, order |-> <<>>,
     updated |-> FALSE, input |-> ZeroInput, played |-> "none",
     states |-> <<>>, reset |-> NoReset, build |-> "none",
     playback |-> NoPlayback]

\* a step of the frame ran: a fixed update's physics, or one of the steps of
\* Game.update
\* the objects resetToCheckpoint can reach
Snapshot(w) == [game |-> w.game, timer |-> w.timer, ghostCar |-> w.ghostCar,
                physics |-> w.physics]

\* resetToCheckpoint was called in world w and returned in world w1
Obs_reset(w, w1) ==
    [w1 EXCEPT !.obs.reset = [called |-> TRUE, from |-> Snapshot(w), to |-> Snapshot(w1)]]

\* this.state = newState, and the values assigned to state by the handler
Obs_state(w, newState) ==
    [w EXCEPT !.game.state = newState, !.obs.states = Append(@, newState)]

Obs_did(w, name) == [w EXCEPT !.obs.order = Append(@, name)]

\* Game.update ran in state playing; the control input the start latch read
Obs_input(w, input) ==
    IF w.game.waitingForStart
    THEN [w EXCEPT !.obs.updated = TRUE, !.obs.input = input]
    ELSE [w EXCEPT !.obs.updated = TRUE]

\* the race starts or is reset: nothing has been hit yet
\* startPlayback returned: the trajectory it was given and what it left
Obs_playback(w) ==
    [w EXCEPT !.obs.playback = [started |-> TRUE,
                                frames |-> Len(w.heap[w.ghostCar.recordedData]),
                                isPlaying |-> w.ghostCar.isPlaying,
                                meshVisible |-> w.ghostCar.meshVisible]]

Obs_raceStart(w) == [w EXCEPT !.obs.lapHits = <<>>, !.obs.trail = <<>>]

\* the tick got past the start latch and queried the checkpoints
Obs_query(w, checkpoint) ==
    IF ~checkpoint.hit
    THEN [w EXCEPT !.obs.ticked = TRUE, !.obs.order = Append(@, "checkpoint")]
    ELSE [w EXCEPT !.obs.ticked = TRUE,
                   !.obs.order = Append(@, "checkpoint"),
                   !.obs.checkpoint = checkpoint,
                   !.obs.cursor = w.game.currentCheckpoint,
                   !.obs.lap = w.timer.currentLap,
                   !.obs.splits = w.timer.lapTimes,
                   !.obs.cachedPosition = w.game.lastCheckpointPosition,
                   !.obs.cachedRotation = w.game.lastCheckpointRotation,
                   !.obs.pose = w.physics,
                   !.obs.trail = Follow(@, checkpoint.index)]

\* handleCheckpoint accepted the hit
Obs_accept(w, checkpoint) ==
    LET h == [index |-> checkpoint.index, isFinish |-> checkpoint.isFinish]
    IN [w EXCEPT !.obs.lapHits =
                    IF @ # <<>> /\ @[Len(@)].isFinish THEN <<h>> ELSE Append(@, h)]

(***************************************************************************)
(* Game                                                                    *)
(***************************************************************************)
Game_new(builder) ==
    [state |-> "menu", currentTrack |-> NoTrack, currentTrackId |-> "track1",
     spawnPosition |-> 0, spawnPositionY |-> SpawnHeight, spawnRotation |-> 0,
     currentCheckpoint |-> 1, totalCheckpoints |-> 0,
     lastCheckpointPosition |-> Null, lastCheckpointPositionY |-> Null,
     lastCheckpointRotation |-> 0,
     trackBuilder |-> builder, currentGhostData |-> NullRef,
     waitingForStart |-> FALSE, countdownInterval |-> FALSE, count |-> 0]

Game_stopCountdown(w) == [w EXCEPT !.game.countdownInterval = FALSE]

\* currentTrack?.laps || 1
TotalLaps(track) == IF track.laps = 0 THEN 1 ELSE track.laps

Game_resetRace(w) ==
    LET w1 == Game_stopCountdown(w)
        w2 == [w1 EXCEPT
                 !.game.waitingForStart = FALSE,
                 !.physics = VehiclePhysics_reset(w.game.spawnPosition,
                                                  w.game.spawnPositionY,
                                                  w.game.spawnRotation),
                 !.timer = [Timer_reset(@) EXCEPT
                               !.totalLaps = TotalLaps(w.game.currentTrack)],
                 !.game.currentCheckpoint = 1,
                 !.game.lastCheckpointPosition = w.game.spawnPosition,
                 !.game.lastCheckpointPositionY = w.game.spawnPositionY,
                 !.game.lastCheckpointRotation = w.game.spawnRotation]
        w3 == GhostCar_stopRecording(GhostCar_stopPlayback(w2))
    IN Obs_raceStart(Obs_state(w3, "ready"))

\* loadTrack once build has returned trackInfo
Game_trackInfoRead(w, info, trackId) ==
    [w EXCEPT !.game.spawnPosition = info.spawnPosition,
              !.game.spawnPositionY = info.spawnPositionY,
              !.game.spawnRotation = info.spawnRotation,
              !.game.totalCheckpoints = info.checkpointCount,
              !.timer = Timer_checkBestTime(@, w.localStorage, trackId)]

\* const ghostData = loadGhost(trackId); if (ghostData) currentGhostData = ghostData
Game_loadGhost(w, trackId) ==
    IF GhostCar_loadGhostRef(w, trackId) # NullRef
    THEN [GhostCar_loadGhost(w, trackId) EXCEPT
             !.game.currentGhostData = GhostCar_loadGhostRef(w, trackId)]
    ELSE w

Game_trackBuilt(w, trackData, trackId) ==
    IF ~Builder_returns(w.game.trackBuilder, trackData)
    THEN [w EXCEPT !.obs.build = "undefined"]
    ELSE Game_resetRace(
             Game_loadGhost(
                 Game_trackInfoRead([w EXCEPT !.obs.build = "trackInfo"],
                                    Builder_info(w.game.trackBuilder, w.collision),
                                    trackId),
                 trackId))

\* When build returns undefined, reading trackInfo.spawnPosition throws and
\* the rest of loadTrack does not run.
Game_loadTrack(w, trackData, trackId) ==
    Game_trackBuilt([w EXCEPT !.game.currentTrackId = trackId,
                              !.game.currentTrack = trackData,
                              !.collision = Builder_build(w.game.trackBuilder, @,
                                                          trackData)],
                    trackData, trackId)

Game_startCountdownSkipped(w) ==
    [Obs_state(Game_stopCountdown(w), "playing") EXCEPT !.game.waitingForStart = TRUE]

Game_startCountdown(w) ==
    [Obs_state(Game_stopCountdown(w), "countdown") EXCEPT
                                  !.game.count = 3,
                                  !.game.countdownInterval = TRUE]

Game_startRace(w) ==
    [Obs_state(w, "playing") EXCEPT !.game.waitingForStart = TRUE]

\* finishRace: the state, the timer and the ghost are stopped
Game_raceStopped(w, clock) ==
    GhostCar_stopPlayback(GhostCar_stopRecording(
        Obs_state([w EXCEPT !.timer = Timer_stop(@, clock)], "finished")))

\* finishRace after saveBestTime returned isNewRecord: the ghost is saved on a
\* record, and main.js's onFinish shows the results screen
Game_raceSaved(w, finalTime, isNewRecord) ==
    [(IF isNewRecord
      THEN [GhostCar_saveGhost(w, w.game.currentTrackId, w.ghostCar.recordedData)
               EXCEPT !.game.currentGhostData = w.ghostCar.recordedData]
      ELSE w)
     EXCEPT !.cb = Append(@, [name |-> "onFinish", time |-> finalTime,
                              bestTime |-> w.timer.bestTime,
                              isNewRecord |-> isNewRecord]),
            !.menu.currentScreen = "results"]

Game_saveRace(w, finalTime) ==
    Game_raceSaved(Timer_saveBestTime(w, w.game.currentTrackId, finalTime),
                   finalTime, Timer_isNewRecord(w.timer, finalTime))

Game_finishRace(w, clock) ==
    Game_saveRace(Game_raceStopped(w, clock),
                  Timer_getTime(Timer_stop(w.timer, clock)))

\* a variant of handleFinish that ends the race one lap late
Game_handleFinishLate(w, clock) ==
    IF w.timer.currentLap > w.timer.totalLaps
    THEN Game_finishRace(w, clock)
    ELSE [w EXCEPT !.timer = Timer_recordLap(@, clock),
                   !.game.currentCheckpoint = 0]

\* the cursor handleFinish leaves after a lap that is not the last
LapCursor == 0

Game_handleFinish(w, clock) ==
    IF w.timer.currentLap >= w.timer.totalLaps
    THEN Game_finishRace(w, clock)
    ELSE [w EXCEPT !.timer = Timer_recordLap(@, clock),
                   !.game.currentCheckpoint = LapCursor]

\* a variant of the acceptance test without the order check
Game_expectsAny(g, checkpoint) == g.totalCheckpoints # 0

\* whether handleCheckpoint accepts the hit
Game_expects(g, checkpoint) ==
    /\ g.totalCheckpoints # 0
    /\ checkpoint.index = g.currentCheckpoint % g.totalCheckpoints

\* a variant of the acceptance that caches the spawn pose, not the vehicle's
Game_acceptSpawn(w, checkpoint) ==
    [w EXCEPT !.game.lastCheckpointPosition = w.game.spawnPosition,
              !.game.lastCheckpointPositionY = w.game.spawnPositionY,
              !.game.lastCheckpointRotation = w.game.spawnRotation,
              !.game.currentCheckpoint = @ + 1,
              !.cb = Append(@, [name |-> "onCheckpoint",
                                index |-> checkpoint.index,
                                isFinish |-> checkpoint.isFinish,
                                cursor |-> w.game.currentCheckpoint + 1])]

\* handleCheckpoint on an accepted hit, up to the onCheckpoint callback
Game_accept(w, checkpoint) ==
    [w EXCEPT !.game.lastCheckpointPosition = w.physics.position,
              !.game.lastCheckpointPositionY = w.physics.positionY,
              !.game.lastCheckpointRotation = w.physics.rotation,
              !.game.currentCheckpoint = @ + 1,
              !.cb = Append(@, [name |-> "onCheckpoint",
                                index |-> checkpoint.index,
                                isFinish |-> checkpoint.isFinish,
                                cursor |-> w.game.currentCheckpoint + 1])]

\* if (checkpoint.isFinish) this.handleFinish()
Game_finishLine(w, checkpoint, clock) ==
    IF checkpoint.isFinish THEN Game_handleFinish(w, clock) ELSE w

Game_handleCheckpoint(w, checkpoint, clock) ==
    IF ~Game_expects(w.game, checkpoint) THEN w
    ELSE Game_finishLine(Obs_accept(Game_accept(w, checkpoint), checkpoint),
                         checkpoint, clock)

\* the test that opens the start latch
Game_inputStarts(input) == input.throttle > 0 \/ input.brake > 0 \/ input.steer # 0

\* checkBarrierCollision and applyCollision: a barrier the bounding box
\* overlaps pushes the vehicle to the place push
Game_barrier(w, push) ==
    IF w.collision.barrierMeshes > 0 /\ push # Null
    THEN [w EXCEPT !.physics.position = push]
    ELSE w

Game_startPlayback(w) ==
    IF w.game.currentGhostData # NullRef
    THEN Obs_playback(GhostCar_startPlayback(w, w.game.currentGhostData))
    ELSE w

\* startRecording, and startPlayback if there is a best ghost
Game_startGhost(w) ==
    Game_startPlayback(GhostCar_startRecording(w))

\* the start latch opens: the timer and the ghost start
Game_start(w, clock) ==
    IF ~w.game.waitingForStart THEN w
    ELSE Game_startGhost(Obs_raceStart([w EXCEPT !.game.waitingForStart = FALSE,
                                                 !.timer = Timer_start(@, clock)]))

\* a variant of the boost check that finds no pad
Game_boostMissed(w) == Obs_did(w, "boost")

Game_boost(w) ==
    IF CollisionSystem_checkBoostPad(w.collision, w.physics.position)
    THEN [w EXCEPT !.cb = Append(@, [name |-> "onBoost"]),
                   !.obs.order = Append(@, "boost")]
    ELSE Obs_did(w, "boost")

Game_checkpoint(w, checkpoint, clock) ==
    IF checkpoint.hit
    THEN Game_handleCheckpoint(Obs_query(w, checkpoint), checkpoint, clock)
    ELSE Obs_query(w, checkpoint)

Game_record(w) ==
    IF w.ghostCar.isRecording
    THEN GhostCar_recordFrame(w, w.physics.position, Quaternion(w.physics),
                              Timer_getTime(w.timer))
    ELSE w

Game_playback(w) ==
    IF w.ghostCar.isPlaying THEN GhostCar_update(w, Timer_getTime(w.timer)) ELSE w

\* update from the checkpoint query on
Game_updateRace(w, push, clock) ==
    Game_barrier(
        Obs_did(Game_playback(Game_record(
            Game_checkpoint(w,
                            CollisionSystem_checkCheckpoint(w.collision.checkpoints,
                                                            w.physics.position),
                            clock))), "barrier"),
        push)

Game_update(w, input, push, clock) ==
    IF w.game.state # "playing" THEN w
    ELSE IF w.game.waitingForStart /\ ~Game_inputStarts(input)
         THEN Obs_input(w, input)
    ELSE Game_updateRace(
             Game_boost(Obs_did([Game_start(Obs_input(w, input), clock) EXCEPT
                                     !.timer = Timer_update(@, clock)], "timer")),
             push, clock)

Game_resetToCheckpointAndCursor(w) ==
    Obs_reset(w, [w EXCEPT !.physics = VehiclePhysics_reset(w.game.lastCheckpointPosition,
                                                            w.game.lastCheckpointPositionY,
                                                            w.game.lastCheckpointRotation),
                           !.game.currentCheckpoint = 1])

Game_resetToCheckpoint(w) ==
    IF w.game.state # "playing" THEN Obs_reset(w, w)
    ELSE Obs_reset(w, [w EXCEPT !.physics =
                                   VehiclePhysics_reset(w.game.lastCheckpointPosition,
                                                        w.game.lastCheckpointPositionY,
                                                        w.game.lastCheckpointRotation)])

Game_pause(w) ==
    IF w.game.state = "playing" THEN Obs_state(w, "paused") ELSE w

Game_resume(w) ==
    IF w.game.state = "paused" THEN Obs_state(w, "playing") ELSE w

(***************************************************************************)
(* Engine, Menu and the callbacks main.js installs                         *)
(***************************************************************************)
\* lastTime is the time of start(), the origin of the clock
Engine_new == [isPaused |-> FALSE, state |-> "loading", accumulator |-> 0, lastTime |-> 0]

Engine_setState(w, newState) == [w EXCEPT !.engine.state = newState]

Engine_pause(w) ==
    IF w.engine.state # "playing" THEN w
    ELSE Engine_setState([w EXCEPT !.engine.isPaused = TRUE], "paused")

Engine_resume(w) ==
    IF w.engine.state # "paused" THEN w
    ELSE Engine_setState([w EXCEPT !.engine.isPaused = FALSE], "playing")

Menu_new == [currentScreen |-> "main", selectedTrackId |-> "track1", pending |-> {}]

Menu_showScreen(w, screen) == [w EXCEPT !.menu.currentScreen = screen]

Menu_hideAll(w) == Menu_showScreen(w, "none")

\* menu.onResume
PolyRacer_onResume(w) == Engine_resume(Game_resume(Menu_hideAll(w)))

\* menu.onRestart up to its await of the countdown
PolyRacer_onRestart(w) == Game_startCountdown(Game_resetRace(Menu_hideAll(w)))

\* menu.onQuit
PolyRacer_onQuit(w) ==
    Menu_showScreen(Engine_setState(Game_resetRace(w), "menu"), "main")

\* inputManager.onReset, onRestart and onPause
PolyRacer_keyReset(w) ==
    IF w.game.state = "playing" THEN Game_resetToCheckpoint(w) ELSE w

PolyRacer_keyRestart(w) ==
    IF w.game.state \in {"playing", "finished"} THEN PolyRacer_onRestart(w) ELSE w

PolyRacer_keyPause(w) ==
    IF w.game.state = "playing"
    THEN Menu_showScreen(Engine_pause(Game_pause(w)), "pause")
    ELSE IF w.game.state = "paused" THEN PolyRacer_onResume(w)
    ELSE w

\* InputManager.update fires the callback of the key just pressed
InputManager_update(w, key) ==
    CASE key = "KeyR" -> PolyRacer_keyReset(w)
      [] key = "Enter" -> PolyRacer_keyRestart(w)
      [] key = "Escape" -> PolyRacer_keyPause(w)
      [] OTHER -> w

\* PolyRacer.fixedUpdate: physics.update moves the vehicle
PolyRacer_fixedUpdate(w, pose) ==
    IF w.game.state # "playing" THEN w
    ELSE Obs_did([w EXCEPT !.physics = pose], "physics")

\* PolyRacer.update after the input manager's update
PolyRacer_updateGame(w, input, push, clock) ==
    IF w.game.state # "playing" THEN w ELSE Game_update(w, input, push, clock)

\* PolyRacer.update
PolyRacer_update(w, input, key, push, clock) ==
    PolyRacer_updateGame(InputManager_update(w, key), input, push, clock)

\* a variant of the loop that leaves the last step in the accumulator
RECURSIVE Engine_whileOver(_, _)
Engine_whileOver(accumulator, steps) ==
    IF accumulator > FixedDeltaTime
    THEN Engine_whileOver(accumulator - FixedDeltaTime, steps + 1)
    ELSE [accumulator |-> accumulator, steps |-> steps]

\* the while loop of gameLoop on the accumulator alone: the fixed updates it
\* has run and what it leaves
RECURSIVE Engine_while(_, _)
Engine_while(accumulator, steps) ==
    IF accumulator >= FixedDeltaTime
    THEN Engine_while(accumulator - FixedDeltaTime, steps + 1)
    ELSE [accumulator |-> accumulator, steps |-> steps]

\* the fixed updates a frame of duration delta runs
FixedSteps(acc, delta) == Engine_while(acc + delta, 0).steps

Min(a, b) == IF a < b THEN a ELSE b

\* the while loop of gameLoop: one onFixedUpdate per fixed step.  Where the
\* steps before the last leave the vehicle nothing reads; the last one leaves
\* it at pose.
RECURSIVE Engine_fixedUpdates(_, _, _)
Engine_fixedUpdates(w, steps, pose) ==
    IF steps = 0 THEN w
    ELSE Engine_fixedUpdates(PolyRacer_fixedUpdate(Obs_did(w, "onFixedUpdate"), pose),
                             steps - 1, pose)

\* deltaTime = Math.min((currentTime - lastTime) / 1000, 0.1)
Engine_deltaTime(w, currentTime) == Min(currentTime - w.engine.lastTime, MaxFrameDelta)

Engine_frameTakenLive(w, currentTime) ==
    IF w.engine.isPaused THEN w ELSE [w EXCEPT !.engine.lastTime = currentTime]

\* lastTime = currentTime
Engine_frameTaken(w, currentTime) == [w EXCEPT !.engine.lastTime = currentTime]

\* the accumulator after the while loop
Engine_accumulated(w, deltaTime) ==
    [w EXCEPT !.engine.accumulator = Engine_while(@ + deltaTime, 0).accumulator]

\* the updates of gameLoop: the fixed updates, then onUpdate
Engine_updates(w, deltaTime, input, key, pose, push, clock) ==
    Obs_did(PolyRacer_update(
                Obs_did(Engine_fixedUpdates(Engine_accumulated(w, deltaTime),
                                            FixedSteps(w.engine.accumulator, deltaTime),
                                            pose),
                        "onUpdate"),
                input, key, push, clock),
            "onRender")

\* Engine.gameLoop; the rendering changes nothing
Engine_gameLoop(w, input, key, pose, push, clock) ==
    IF ~w.engine.isPaused /\ w.engine.state = "playing"
    THEN Engine_frameTaken(Engine_updates(w, Engine_deltaTime(w, clock),
                                          input, key, pose, push, clock),
                           clock)
    ELSE Obs_did(Engine_frameTaken(w, clock), "onRender")

(***************************************************************************)
(* The state machine                                                       *)
(***************************************************************************)
World ==
    [game |-> game, timer |-> timer, ghostCar |-> ghostCar, physics |-> physics,
     collision |-> collision, localStorage |-> localStorage, heap |-> heap,
     engine |-> engine, menu |-> menu, cb |-> <<>>,
     obs |-> [NoObs EXCEPT !.lapHits = last.lapHits, !.trail = last.trail,
                           !.played = last.played]]

\* the objects after the handler of event op returned world w0
Becomes(op, w0) ==
    \E w \in {Collect(w0)} :
       /\ game' = w.game
       /\ timer' = w.timer
       /\ ghostCar' = w.ghostCar
       /\ physics' = w.physics
       /\ collision' = w.collision
       /\ localStorage' = w.localStorage
       /\ heap' = w.heap
       /\ engine' = w.engine
       /\ menu' = w.menu
       /\ cb' = w.cb
       /\ last' = [w.obs EXCEPT !.op = op]

Throttle == [throttle |-> 1, brake |-> 0, steer |-> 0, drift |-> FALSE]

Inputs == {ZeroInput, Throttle, [ZeroInput EXCEPT !.drift = TRUE]}

Keys == {"none", "KeyR", "Enter", "Escape"}

\* the poses a physics step leaves the vehicle in: anywhere along the flat
\* track, settled at the suspension height, in motion
Poses == [position : Positions, positionY : {SuspensionHeight}, rotation : Yaws,
          speed : {1}]

\* requestAnimationFrame delivers a frame
Frame(frameTime, input, key, pose, push) ==
    /\ now + frameTime <= MaxNow
    /\ now' = now + frameTime
    /\ \E w \in {World}, clock \in {now + frameTime} :
          Becomes("Frame", Engine_gameLoop(w, input, key, pose, push, clock))
    /\ UNCHANGED trackFiles

\* a variant of the callback that shows GO! for ever
Game_countdownStuck(w) ==
    IF w.game.count = 0 THEN w ELSE [w EXCEPT !.game.count = @ - 1]

\* the countdown's setInterval callback; on the last one the promise resolves
\* and the awaiting onPlay or onRestart sets the engine state
Game_countdownTick(w) ==
    LET w1 == [w EXCEPT !.game.count = @ - 1]
    IN IF w1.game.count >= 0 THEN w1
       ELSE Engine_setState(Game_startRace(Game_stopCountdown(w1)), "playing")

CountdownTick ==
    /\ game.countdownInterval
    /\ Becomes("CountdownTick", Game_countdownTick(World))
    /\ UNCHANGED <<now, trackFiles, pair>>

Fetch(kind, trackId) == [kind |-> kind, trackId |-> trackId]

\* btn-play: onPlay hides the menu and fetches the selected track
PolyRacer_onPlay(w, trackId) ==
    [Menu_hideAll(w) EXCEPT !.menu.pending = @ \cup {Fetch("play", trackId)},
                            !.obs.played = trackId]

ClickPlay ==
    /\ menu.currentScreen = "main"
    /\ Becomes("ClickPlay", PolyRacer_onPlay(World, menu.selectedTrackId))
    /\ UNCHANGED <<now, trackFiles, pair>>

\* btn-tracks and btn-back-tracks
ClickTracks ==
    /\ menu.currentScreen = "main"
    /\ Becomes("ClickTracks", Menu_showScreen(World, "tracks"))
    /\ UNCHANGED <<now, trackFiles, pair>>

ClickBack ==
    /\ menu.currentScreen = "tracks"
    /\ Becomes("ClickBack", Menu_showScreen(World, "main"))
    /\ UNCHANGED <<now, trackFiles, pair>>

\* a track card: selects the track and fetches it (onTrackSelect)
ClickTrackCard(trackId) ==
    /\ menu.currentScreen = "tracks"
    /\ Becomes("ClickTrackCard",
               [World EXCEPT !.menu.selectedTrackId = trackId,
                             !.menu.pending = @ \cup {Fetch("select", trackId)}])
    /\ UNCHANGED <<now, trackFiles, pair>>

\* onPlay after its await of loadTrack; onTrackSelect has nothing more to do
PolyRacer_loaded(w, f) ==
    IF f.kind = "play" THEN Game_startCountdown(Game_resetRace(w)) ELSE w

\* PolyRacer.loadTrack after its fetch, and the rest of onPlay
PolyRacer_loadTrack(w, files, f) ==
    PolyRacer_loaded(Game_loadTrack([w EXCEPT !.menu.pending = @ \ {f}],
                                    files[f.trackId], f.trackId),
                     f)

FetchDone(f) ==
    /\ f \in menu.pending
    /\ Becomes("FetchDone", PolyRacer_loadTrack(World, trackFiles, f))
    /\ UNCHANGED <<now, trackFiles, pair>>

\* btn-resume
ClickResume ==
    /\ menu.currentScreen = "pause"
    /\ Becomes("ClickResume", PolyRacer_onResume(World))
    /\ UNCHANGED <<now, trackFiles, pair>>

\* btn-restart and btn-retry
ClickRestart ==
    /\ menu.currentScreen \in {"pause", "results"}
    /\ Becomes("ClickRestart", PolyRacer_onRestart(World))
    /\ UNCHANGED <<now, trackFiles, pair>>

\* btn-quit and btn-results-menu
ClickQuit ==
    /\ menu.currentScreen \in {"pause", "results"}
    /\ Becomes("ClickQuit", PolyRacer_onQuit(World))
    /\ UNCHANGED <<now, trackFiles, pair>>

\* visibilitychange with the document hidden
VisibilityHidden ==
    /\ engine.state = "playing"
    /\ Becomes("VisibilityHidden", Engine_pause(World))
    /\ UNCHANGED <<now, trackFiles, pair>>

(***************************************************************************)
(* The installations the model starts from: the builder main.js links, the *)
(* track files served, and what an earlier session left in localStorage.   *)
(***************************************************************************)
Setups ==
    {[builder |-> "SplineTrackBuilder",
      files |-> [t \in TrackIds |->
                    IF t = "track1" THEN [points |-> 7, pieces |-> <<>>, laps |-> 2]
                    ELSE [points |-> 3, pieces |-> <<>>, laps |-> 1]]],
     [builder |-> "TrackBuilder",
      files |-> [t \in TrackIds |->
                    IF t = "track1"
                    THEN [points |-> 0, laps |-> 2,
                          pieces |-> <<"checkpoint", "checkpoint", "finish">>]
                    ELSE [points |-> 0, laps |-> 0,
                          pieces |-> <<"straight", "boost">>]]]}

SplineSetup == CHOOSE s \in Setups : s.builder = "SplineTrackBuilder"

Frame0 == [time |-> 6, position |-> 2, quaternion |-> 0]

Frame1 == [time |-> 12, position |-> 3, quaternion |-> 1]

\* a best run of track1 and its ghost, as saveBestTime and saveGhost leave them
Stored(time, frames) ==
    (BestKey("track1") :> toString(time)) @@
    (GhostKey("track1") :> JSON_stringify(frames))

NoStore == <<>>

ShortStore == Stored(8, <<Frame0>>)

LongStore == Stored(14, <<Frame0, Frame1>>)

\* PolyRacer.init: the objects are built and linked, track1 is loaded, the
\* engine started
Installed(setup, store) ==
    Collect(Game_loadTrack(
                [game |-> Game_new(setup.builder), timer |-> Timer_new,
                 ghostCar |-> GhostCar_new, physics |-> VehiclePhysics_new,
                 collision |-> CollisionSystem_new, localStorage |-> store,
                 heap |-> [r \in Refs |-> <<>>],
                 engine |-> Engine_new, menu |-> Menu_new, cb |-> <<>>,
                 obs |-> NoObs],
                setup.files["track1"], "track1"))

\* the variables hold world w
Holds(w) ==
    /\ game = w.game
    /\ timer = w.timer
    /\ ghostCar = w.ghostCar
    /\ physics = w.physics
    /\ collision = w.collision
    /\ localStorage = w.localStorage
    /\ heap = w.heap
    /\ engine = w.engine
    /\ menu = w.menu
    /\ cb = w.cb
    /\ last = w.obs

NoPair == [forked |-> FALSE, ticks |-> <<0, 0>>, now |-> 0, world |-> <<>>]

InitFrom(SetupSet, StoreSet) ==
    /\ now = 0
    /\ pair = NoPair
    /\ \E setup \in SetupSet, store \in StoreSet :
          /\ trackFiles = setup.files
          /\ \E w \in {Installed(setup, store)} : Holds(w)

\* A frame reads its input, key and the vehicle's motion only while the
\* engine updates, the motion only while the game is playing, and a barrier
\* only on a track that has one; what it does not read is fixed, so that the
\* same frame is not taken many times over.
FrameReads(input, key, pose, push) ==
    LET live == ~engine.isPaused /\ engine.state = "playing"
        playing == live /\ game.state = "playing"
    IN /\ ~live => key = "none"
       /\ ~playing => input = ZeroInput /\ pose = physics /\ push = Null
       /\ playing => pose \in Poses
       /\ collision.barrierMeshes = 0 => push = Null

AnyFrame(DurationSet, KeySet, InputSet) ==
    \E frameTime \in DurationSet, input \in InputSet, key \in KeySet,
       pose \in Poses \cup {physics}, push \in {Null, 0} :
       /\ FrameReads(input, key, pose, push)
       /\ Frame(frameTime, input, key, pose, push)
       /\ UNCHANGED pair

(***************************************************************************)
(* Spec: a session of races on the track loaded at startup, with the keys  *)
(* and the pause and results menus, from an empty localStorage.            *)
(***************************************************************************)
Init == InitFrom(Setups, {NoStore})

Next ==
    \/ AnyFrame(FrameDurations, Keys, {ZeroInput, Throttle})
    \/ CountdownTick
    \/ ClickPlay
    \/ \E f \in menu.pending : FetchDone(f)
    \/ ClickResume
    \/ ClickRestart
    \/ ClickQuit
    \/ VisibilityHidden

Spec == Init /\ [][Next]_vars

(***************************************************************************)
(* SpecStore: a session of track loads and races over a localStorage that  *)
(* holds a best run of track1, without the keys.                           *)
(***************************************************************************)
InitStore == InitFrom({SplineSetup}, {ShortStore})

NextStore ==
    \/ AnyFrame(FrameDurations, {"none"}, Inputs)
    \/ CountdownTick
    \/ ClickPlay
    \/ ClickTracks
    \/ ClickBack
    \/ \E trackId \in TrackIds : ClickTrackCard(trackId)
    \/ \E f \in menu.pending : FetchDone(f)
    \/ ClickRestart
    \/ ClickQuit

SpecStore == InitStore /\ [][NextStore]_vars

(***************************************************************************)
(* SpecPause: races on the spline track with pauses, by the Escape key and *)
(* by the page being hidden, and resumes, by the key and by the menu, with *)
(* frames at 40 Hz and at 20 Hz, which leave the fixed steps of 1/60 s a   *)
(* remainder in the accumulator.                                           *)
(***************************************************************************)
PauseFrameDurations == {3, 6}

InitPause == InitFrom({SplineSetup}, {NoStore})

NextPause ==
    \/ AnyFrame(PauseFrameDurations, {"none", "Escape"}, {ZeroInput, Throttle})
    \/ CountdownTick
    \/ ClickPlay
    \/ \E f \in menu.pending : FetchDone(f)
    \/ ClickResume
    \/ VisibilityHidden

SpecPause == InitPause /\ [][NextPause]_vars

(***************************************************************************)
(* SpecCountdown: the menus, the track fetches, the countdowns and short   *)
(* races with the restart and pause keys.  setInterval calls the           *)
(* countdown's callback every second until clearInterval, so a countdown   *)
(* callback that stays due is run.                                         *)
(***************************************************************************)
CountdownFrameDurations == {6}

InitCountdown == InitFrom({SplineSetup}, {NoStore})

NextCountdown ==
    \/ AnyFrame(CountdownFrameDurations, {"none", "Enter", "Escape"}, {ZeroInput, Throttle})
    \/ CountdownTick
    \/ ClickPlay
    \/ ClickTracks
    \/ ClickBack
    \/ \E trackId \in TrackIds : ClickTrackCard(trackId)
    \/ \E f \in menu.pending : FetchDone(f)
    \/ ClickRestart
    \/ ClickQuit

SpecCountdown == InitCountdown /\ [][NextCountdown]_vars /\ WF_vars(CountdownTick)

(***************************************************************************)
(* SpecCorrupt: races of one lap on a short spline track, in a browser     *)
(* whose localStorage holds, under the keys of track1, a best time that is *)
(* no number and a ghost that is no JSON text.                             *)
(***************************************************************************)
ShortSetup ==
    [builder |-> "SplineTrackBuilder",
     files |-> [t \in TrackIds |-> [points |-> 3, pieces |-> <<>>, laps |-> 1]]]

CorruptStore ==
    (BestKey("track1") :> <<"-", "-">>) @@
    (GhostKey("track1") :> [ok |-> FALSE, frames |-> <<>>])

InitCorrupt == InitFrom({ShortSetup}, {CorruptStore})

NextCorrupt ==
    \/ AnyFrame(FrameDurations, {"none"}, {ZeroInput, Throttle})
    \/ CountdownTick
    \/ ClickPlay
    \/ \E f \in menu.pending : FetchDone(f)
    \/ ClickRestart
    \/ ClickQuit

SpecCorrupt == InitCorrupt /\ [][NextCorrupt]_vars

(***************************************************************************)
(* SpecGhost: races on the short spline track whose stored best ghost is   *)
(* an empty trajectory or a trajectory of a single frame.                  *)
(***************************************************************************)
EmptyStore == Stored(8, <<>>)

InitGhost == InitFrom({ShortSetup}, {EmptyStore, ShortStore})

NextGhost ==
    \/ AnyFrame(FrameDurations, {"none"}, {ZeroInput, Throttle})
    \/ CountdownTick
    \/ ClickPlay
    \/ \E f \in menu.pending : FetchDone(f)
    \/ ClickRestart
    \/ ClickQuit

SpecGhost == InitGhost /\ [][NextGhost]_vars

(***************************************************************************)
(* SpecMalformed: the server's file of track1 is a short spline track and  *)
(* the files of the other tracks hold a single point; the menus, the track *)
(* fetches, the countdown and the race.                                    *)
(***************************************************************************)
MalformedSetup ==
    [builder |-> "SplineTrackBuilder",
     files |-> [t \in TrackIds |->
                   IF t = "track1" THEN [points |-> 3, pieces |-> <<>>, laps |-> 1]
                   ELSE [points |-> 1, pieces |-> <<>>, laps |-> 1]]]

InitMalformed == InitFrom({MalformedSetup}, {NoStore})

NextMalformed ==
    \/ AnyFrame(FrameDurations, {"none"}, {ZeroInput, Throttle})
    \/ CountdownTick
    \/ ClickPlay
    \/ ClickTracks
    \/ ClickBack
    \/ \E trackId \in TrackIds : ClickTrackCard(trackId)
    \/ \E f \in menu.pending : FetchDone(f)
    \/ ClickQuit

SpecMalformed == InitMalformed /\ [][NextMalformed]_vars

(***************************************************************************)
(* SpecOpen: races on a track of pieces without a checkpoint or a finish   *)
(* line: a straight with its barriers and a boost pad.                     *)
(***************************************************************************)
OpenSetup ==
    [builder |-> "TrackBuilder",
     files |-> [t \in TrackIds |->
                   [points |-> 0, laps |-> 0, pieces |-> <<"straight", "boost">>]]]

InitOpen == InitFrom({OpenSetup}, {NoStore})

NextOpen ==
    \/ AnyFrame(FrameDurations, {"none", "KeyR"}, {ZeroInput, Throttle})
    \/ CountdownTick
    \/ ClickPlay
    \/ \E f \in menu.pending : FetchDone(f)

SpecOpen == InitOpen /\ [][NextOpen]_vars

(***************************************************************************)
(* SpecVehicle: the vehicle's velocity under the barrier response and the  *)
(* boost.  Here physics holds vectors: position, velocity as a vector over *)
(* a common denominator, the yaw in quarter turns and the forward speed    *)
(* that update computed last.  Lengths are in metres, speeds in units of   *)
(* 40 m/s.  A barrier's box is centred at the origin.                      *)
(***************************************************************************)
MaxSpeed == 2

Dot(a, b) == a[1] * b[1] + a[2] * b[2] + a[3] * b[3]

Math_sign(x) == IF x > 0 THEN 1 ELSE IF x < 0 THEN -1 ELSE 0

Max(a, b) == IF a > b THEN a ELSE b

Box3_setFromCenterAndSize(center, half) ==
    [min |-> [i \in 1..3 |-> center[i] - half[i]],
     max |-> [i \in 1..3 |-> center[i] + half[i]]]

Box3_intersectsBox(a, b) ==
    ~(\E i \in 1..3 : b.max[i] < a.min[i] \/ b.min[i] > a.max[i])

Box3_intersect(a, b) ==
    [min |-> [i \in 1..3 |-> Max(a.min[i], b.min[i])],
     max |-> [i \in 1..3 |-> Min(a.max[i], b.max[i])]]

\* twice the centre of the box
Box3_getCenter(a) == [i \in 1..3 |-> a.min[i] + a.max[i]]

\* the direction dir / sqrt(len2); a zero vector is divided by 1
Vector3_normalize(d) == [dir |-> d, len2 |-> IF Dot(d, d) = 0 THEN 1 ELSE Dot(d, d)]

\* half the sizes of the vehicle's box and of the barrier's
HalfSize == <<1, 1, 1>>

BarrierBox == Box3_setFromCenterAndSize(<<0, 0, 0>>, <<1, 1, 1>>)

\* checkBarrierCollision, the variant that pushes along the line of the
\* centres, flattened; the penetration is in tenths of a metre
CollisionSystem_checkBarrierCollisionCentres(boundingBox) ==
    IF ~Box3_intersectsBox(boundingBox, BarrierBox) THEN [collided |-> FALSE]
    ELSE LET pushDir == Vector3_normalize(
                            [i \in 1..3 |-> Box3_getCenter(boundingBox)[i]
                                            - Box3_getCenter(BarrierBox)[i]])
         IN [collided |-> TRUE,
             normal |-> [pushDir EXCEPT !.dir[2] = 0],
             penetration |-> 5]

\* checkBarrierCollision, the variant that pushes along the axis of the
\* shallowest penetration
CollisionSystem_checkBarrierCollision(boundingBox) ==
    IF ~Box3_intersectsBox(boundingBox, BarrierBox) THEN [collided |-> FALSE]
    ELSE LET intersection == Box3_intersect(boundingBox, BarrierBox)
             xPen == intersection.max[1] - intersection.min[1]
             zPen == intersection.max[3] - intersection.min[3]
             dirToSelf == [i \in 1..3 |-> Box3_getCenter(boundingBox)[i]
                                          - Box3_getCenter(BarrierBox)[i]]
         IN IF xPen < zPen
            THEN [collided |-> TRUE,
                  normal |-> [dir |-> <<Math_sign(dirToSelf[1]), 0, 0>>, len2 |-> 1],
                  penetration |-> 10 * xPen + 1]
            ELSE [collided |-> TRUE,
                  normal |-> [dir |-> <<0, 0, Math_sign(dirToSelf[3])>>, len2 |-> 1],
                  penetration |-> 10 * zPen + 1]

\* velocity . normal, times den * sqrt(len2)
VelocityDot(velocity, normal) == Dot(velocity.v, normal.dir)

\* velocity - normal * (dot * 1.5), then * 0.7, exactly:
\* 7 (2 len2 v - 3 (v . dir) dir) / (20 len2 den)
Reflected(velocity, normal) ==
    [v |-> [i \in 1..3 |-> 7 * (2 * normal.len2 * velocity.v[i]
                                - 3 * VelocityDot(velocity, normal) * normal.dir[i])],
     den |-> 20 * normal.len2 * velocity.den]

VehiclePhysics_applyCollision(p, normal, penetration) ==
    [p EXCEPT !.pushed = [normal |-> normal, penetration |-> penetration],
              !.velocity = IF VelocityDot(p.velocity, normal) < 0
                           THEN Reflected(p.velocity, normal)
                           ELSE @]

\* (0, 0, -1) and (1, 0, 0) turned by the quaternion
Forward(yaw) == <<<<0, 0, -1>>, <<-1, 0, 0>>, <<0, 0, 1>>, <<1, 0, 0>>>>[yaw + 1]

Right(yaw) == <<<<1, 0, 0>>, <<0, 0, -1>>, <<-1, 0, 0>>, <<0, 0, 1>>>>[yaw + 1]

\* min(speed * multiplier, maxSpeed * 1.2) in fifths, for a multiplier in
\* fifths
BoostSpeed(speed, multiplier) == Min(speed * multiplier, MaxSpeed * 6)

VehiclePhysics_applyBoost(p, multiplier) ==
    [p EXCEPT !.velocity = [v |-> [i \in 1..3 |-> Forward(p.yaw)[i]
                                                   * BoostSpeed(p.speed, multiplier)],
                            den |-> 5]]

NoPush == [normal |-> [dir |-> <<0, 0, 0>>, len2 |-> 1], penetration |-> 0]

\* VehiclePhysics.update leaves a position, a velocity and the forward speed
VehiclePhysics_updated(position, velocity, yaw) ==
    [position |-> position, pushed |-> NoPush,
     velocity |-> [v |-> velocity, den |-> 1], yaw |-> yaw,
     speed |-> Dot(velocity, Forward(yaw))]

VehiclePositions == {<<x, y, z>> : x \in -3..3, y \in {0, 2}, z \in -2..2}

Velocities == {<<x, y, z>> : x \in -1..1, y \in {-1, 0}, z \in {-3, -1, 0, 1, 3}}

QuarterTurns == {0, 1}

NoStep == [op |-> "init", before |-> VehiclePhysics_updated(<<0, 0, 0>>, <<0, 0, 0>>, 0),
           barrier |-> [collided |-> FALSE]]

\* A fixed update has left any position, velocity and yaw; the variables
\* other than physics and last are those of the installed program and do
\* not change.
InitVehicle ==
    /\ now = 0
    /\ pair = NoPair
    /\ trackFiles = OpenSetup.files
    /\ \E w \in {Installed(OpenSetup, NoStore)} :
          /\ game = w.game /\ timer = w.timer /\ ghostCar = w.ghostCar
          /\ collision = w.collision /\ localStorage = w.localStorage
          /\ heap = w.heap /\ engine = w.engine /\ menu = w.menu /\ cb = w.cb
    /\ \E position \in VehiclePositions, velocity \in Velocities, yaw \in QuarterTurns :
          physics = VehiclePhysics_updated(position, velocity, yaw)
    /\ last = NoStep

VehicleStep(op, p, barrier) ==
    /\ physics' = p
    /\ last' = [op |-> op, before |-> physics, barrier |-> barrier]
    /\ UNCHANGED <<now, game, timer, ghostCar, collision, localStorage, heap,
                   engine, menu, trackFiles, cb, pair>>

\* Game.update on a boost pad
Boost ==
    VehicleStep("applyBoost", VehiclePhysics_applyBoost(physics, 6), [collided |-> FALSE])

\* Game.update's barrier step, with either variant of the collision system
BarrierStep(barrier) ==
    /\ physics.velocity.den \in {1, 5}
    /\ IF barrier.collided
       THEN VehicleStep("applyCollision",
                        VehiclePhysics_applyCollision(physics, barrier.normal,
                                                      barrier.penetration),
                        barrier)
       ELSE VehicleStep("barrier", physics, barrier)

BarrierCentres ==
    BarrierStep(CollisionSystem_checkBarrierCollisionCentres(
                    Box3_setFromCenterAndSize(physics.position, HalfSize)))

BarrierAxis ==
    BarrierStep(CollisionSystem_checkBarrierCollision(
                    Box3_setFromCenterAndSize(physics.position, HalfSize)))

NextVehicle ==
    \/ Boost
    \/ BarrierCentres
    \/ BarrierAxis

SpecVehicle == InitVehicle /\ [][NextVehicle]_vars

(***************************************************************************)
(* SpecOlder: the older variant of Game, whose countdown keeps its         *)
(* interval in a local constant: game.intervals are the intervals that run *)
(* and the count of each.  The menus, the track fetches and the countdown. *)
(***************************************************************************)
GameOlder_new(builder) ==
    [intervals |-> <<>>] @@ [Game_new(builder) EXCEPT !.currentCheckpoint = 0]

GameOlder_resetRace(w) ==
    LET w2 == [w EXCEPT
                 !.physics = VehiclePhysics_reset(w.game.spawnPosition,
                                                  w.game.spawnPositionY,
                                                  w.game.spawnRotation),
                 !.timer = [Timer_reset(@) EXCEPT
                               !.totalLaps = TotalLaps(w.game.currentTrack)],
                 !.game.currentCheckpoint = 0,
                 !.game.lastCheckpointPosition = w.game.spawnPosition,
                 !.game.lastCheckpointPositionY = w.game.spawnPositionY,
                 !.game.lastCheckpointRotation = w.game.spawnRotation]
        w3 == GhostCar_stopRecording(GhostCar_stopPlayback(w2))
    IN Obs_raceStart(Obs_state(w3, "ready"))

GameOlder_startCountdown(w) ==
    [Obs_state(w, "countdown") EXCEPT !.game.intervals = Append(@, 3)]

GameOlder_startRace(w, clock) ==
    Game_startGhost([Obs_state(w, "playing") EXCEPT !.timer = Timer_start(@, clock)])

GameOlder_trackBuilt(w, trackData, trackId) ==
    IF ~Builder_returns(w.game.trackBuilder, trackData)
    THEN [w EXCEPT !.obs.build = "undefined"]
    ELSE GameOlder_resetRace(
             Game_loadGhost(
                 Game_trackInfoRead([w EXCEPT !.obs.build = "trackInfo"],
                                    Builder_info(w.game.trackBuilder, w.collision),
                                    trackId),
                 trackId))

GameOlder_loadTrack(w, trackData, trackId) ==
    GameOlder_trackBuilt([w EXCEPT !.game.currentTrackId = trackId,
                                   !.game.currentTrack = trackData,
                                   !.collision = Builder_build(w.game.trackBuilder, @,
                                                               trackData)],
                         trackData, trackId)

\* the sequence without its i-th element
Without(s, i) == SubSeq(s, 1, i - 1) \o SubSeq(s, i + 1, Len(s))

\* the callback of the i-th interval; on its last call it clears itself,
\* starts the race and resolves the promise that onPlay awaits
GameOlder_countdownTick(w, i, clock) ==
    IF w.game.intervals[i] - 1 >= 0
    THEN [w EXCEPT !.game.intervals[i] = @ - 1]
    ELSE Engine_setState(
             GameOlder_startRace([w EXCEPT !.game.intervals = Without(@, i)], clock),
             "playing")

PolyRacerOlder_loaded(w, f) ==
    IF f.kind = "play" THEN GameOlder_startCountdown(GameOlder_resetRace(w)) ELSE w

PolyRacerOlder_loadTrack(w, files, f) ==
    PolyRacerOlder_loaded(GameOlder_loadTrack([w EXCEPT !.menu.pending = @ \ {f}],
                                              files[f.trackId], f.trackId),
                          f)

InstalledOlder(setup, store) ==
    Collect(GameOlder_loadTrack(
                [game |-> GameOlder_new(setup.builder), timer |-> Timer_new,
                 ghostCar |-> GhostCar_new, physics |-> VehiclePhysics_new,
                 collision |-> CollisionSystem_new, localStorage |-> store,
                 heap |-> [r \in Refs |-> <<>>],
                 engine |-> Engine_new, menu |-> Menu_new, cb |-> <<>>,
                 obs |-> NoObs],
                setup.files["track1"], "track1"))

InitOlder ==
    /\ now = 0
    /\ pair = NoPair
    /\ \E setup \in Setups :
          /\ trackFiles = setup.files
          /\ \E w \in {InstalledOlder(setup, NoStore)} : Holds(w)

CountdownTickOlder(i) ==
    /\ Becomes("CountdownTick", GameOlder_countdownTick(World, i, now))
    /\ UNCHANGED <<now, trackFiles, pair>>

FetchDoneOlder(f) ==
    /\ f \in menu.pending
    /\ Becomes("FetchDone", PolyRacerOlder_loadTrack(World, trackFiles, f))
    /\ UNCHANGED <<now, trackFiles, pair>>

NextOlder ==
    \/ ClickPlay
    \/ ClickTracks
    \/ ClickBack
    \/ \E trackId \in TrackIds : ClickTrackCard(trackId)
    \/ \E f \in menu.pending : FetchDoneOlder(f)
    \/ \E i \in DOMAIN game.intervals : CountdownTickOlder(i)

SpecOlder == InitOlder /\ [][NextOlder]_vars

(***************************************************************************)
(* SpecGhostCar: the GhostCar object alone, under any order of its calls:  *)
(* recording with any timestamps and playback of any short trajectory,     *)
(* with timestamps that rise, repeat or fall.  last holds the call, its    *)
(* time argument, the timestamps recordFrame appended since startRecording *)
(* and the ratio update evaluated.                                         *)
(***************************************************************************)
CallTimes == {0, 6, 12}

FrameTimes == {6, 12}

\* the trajectory with these timestamps; frame k is at place k
TrajectoryOf(times) ==
    [k \in DOMAIN times |-> [time |-> times[k], position |-> k, quaternion |-> k % 2]]

Trajectories ==
    {TrajectoryOf(times) : times \in {<<>>} \cup [1..1 -> FrameTimes]
                                   \cup [1..2 -> FrameTimes] \cup [1..3 -> FrameTimes]}

NoRatio == [evaluated |-> FALSE, num |-> 0, den |-> 1]

\* whether update gets to the interpolation, and the ratio t it evaluates
GhostCar_interpolates(w, currentTime) ==
    LET data == w.heap[w.ghostCar.recordedData]
    IN /\ w.ghostCar.isPlaying
       /\ Len(data) # 0
       /\ FindFrame(data, w.ghostCar.playbackIndex, currentTime) < Len(data) - 1

GhostCar_t(w, currentTime) ==
    LET data == w.heap[w.ghostCar.recordedData]
        index == FindFrame(data, w.ghostCar.playbackIndex, currentTime)
    IN IF ~GhostCar_interpolates(w, currentTime) THEN NoRatio
       ELSE Ratio(data[index + 1], data[index + 2], currentTime)

GhostWorld == [ghostCar |-> ghostCar, heap |-> heap, game |-> game]

NoCall == [op |-> "init", time |-> Null, appended |-> <<>>, t |-> NoRatio]

InitGhostCar ==
    /\ now = 0
    /\ pair = NoPair
    /\ trackFiles = ShortSetup.files
    /\ \E w \in {Installed(ShortSetup, NoStore)} :
          /\ game = w.game /\ timer = w.timer /\ ghostCar = w.ghostCar
          /\ physics = w.physics /\ collision = w.collision
          /\ localStorage = w.localStorage /\ heap = w.heap
          /\ engine = w.engine /\ menu = w.menu /\ cb = w.cb
    /\ last = NoCall

GhostCarStep(op, time, appended, t, w0) ==
    /\ \E w \in {Collect(w0)} : ghostCar' = w.ghostCar /\ heap' = w.heap
    /\ last' = [op |-> op, time |-> time, appended |-> appended, t |-> t]
    /\ UNCHANGED <<now, game, timer, physics, collision, localStorage, engine, menu,
                   trackFiles, cb, pair>>

\* Game.update starts a recording after resetRace has stopped the playback
StartRecording ==
    /\ ~ghostCar.isPlaying
    /\ GhostCarStep("startRecording", Null, <<>>, NoRatio,
                    GhostCar_startRecording(GhostWorld))

StopRecording ==
    GhostCarStep("stopRecording", Null, last.appended, NoRatio,
                 GhostCar_stopRecording(GhostWorld))

RecordFrame(time) ==
    \E w \in {GhostCar_recordFrame(GhostWorld, 1, 0, time)} :
       GhostCarStep("recordFrame", time,
                    IF w.heap[w.ghostCar.recordedData] # heap[ghostCar.recordedData]
                    THEN Append(last.appended, time) ELSE last.appended,
                    NoRatio, w)

\* startPlayback(data) with a new array, and startPlayback()
StartPlayback(data) ==
    \E r \in {NewRef(GhostWorld)} :
       GhostCarStep("startPlayback", Null, last.appended, NoRatio,
                    GhostCar_startPlayback([GhostWorld EXCEPT !.heap[r] = data], r))

StartPlaybackAgain ==
    GhostCarStep("startPlayback", Null, last.appended, NoRatio,
                 GhostCar_startPlayback(GhostWorld, NullRef))

StopPlayback ==
    GhostCarStep("stopPlayback", Null, last.appended, NoRatio,
                 GhostCar_stopPlayback(GhostWorld))

Update(currentTime) ==
    GhostCarStep("update", currentTime, last.appended,
                 GhostCar_t(GhostWorld, currentTime),
                 GhostCar_update(GhostWorld, currentTime))

NextGhostCar ==
    \/ StartRecording
    \/ StopRecording
    \/ \E time \in CallTimes : RecordFrame(time)
    \/ \E data \in Trajectories : StartPlayback(data)
    \/ StartPlaybackAgain
    \/ StopPlayback
    \/ \E currentTime \in CallTimes : Update(currentTime)

SpecGhostCar == InitGhostCar /\ [][NextGhostCar]_vars

(***************************************************************************)
(* SpecLoop: the engine's loop over a longer time, with frames of 1/40 s   *)
(* and frames that come after 7/60 s, more than the cap of 0.1 s; the race *)
(* waits for the first input throughout, and the Escape key pauses and     *)
(* resumes.                                                                *)
(***************************************************************************)
MaxLoopNow == 20

LoopFrameDurations == {3, 14}

InitLoop == InitFrom({SplineSetup}, {NoStore})

LoopFrame ==
    \E frameTime \in LoopFrameDurations, key \in {"none", "Escape"},
       pose \in {[position |-> 0, positionY |-> SuspensionHeight, rotation |-> 0,
                  speed |-> 1], physics} :
       /\ FrameReads(ZeroInput, key, pose, Null)
       /\ now + frameTime <= MaxLoopNow
       /\ now' = now + frameTime
       /\ \E w \in {World}, clock \in {now + frameTime} :
             Becomes("Frame", Engine_gameLoop(w, ZeroInput, key, pose, Null, clock))
       /\ UNCHANGED <<trackFiles, pair>>

NextLoop ==
    \/ LoopFrame
    \/ CountdownTick
    \/ ClickPlay
    \/ \E f \in menu.pending : FetchDone(f)
    \/ ClickResume

SpecLoop == InitLoop /\ [][NextLoop]_vars

(***************************************************************************)
(* SpecPair: two runs of the same race.  The session goes through Play,    *)
(* the track load and the countdown once; from there the two runs execute  *)
(* the same fixed ticks, tick k moving the vehicle to PoseAt(k) under the  *)
(* same control input, and each is delivered its own render frames.  The   *)
(* variables hold the first run, pair the second, which starts from the    *)
(* world the first run's first frame found.                                *)
(***************************************************************************)
PoseAt(k) == [position |-> k % 4, positionY |-> SuspensionHeight,
              rotation |-> (k \div 4) % 2, speed |-> 1]

\* the fixed updates the engine runs in a frame
Ticks(e, frameTime) ==
    IF ~e.isPaused /\ e.state = "playing"
    THEN FixedSteps(e.accumulator, Min(frameTime, MaxFrameDelta))
    ELSE 0

\* the countdown is over and the race is on
Racing(w) == w.game.state = "playing" /\ w.engine.state = "playing"

\* the second run, before its next frame
Second == IF pair.forked THEN pair ELSE [pair EXCEPT !.now = now, !.world = World]

InitPair == InitFrom(Setups, {NoStore, LongStore})

FirstFrame(frameTime) ==
    /\ Racing(World)
    /\ \E second \in {Second}, ticks \in {Ticks(engine, frameTime)} :
          /\ \E pose \in {PoseAt(pair.ticks[1] + ticks)} :
                Frame(frameTime, Throttle, "none", pose, Null)
          /\ pair' = [second EXCEPT !.forked = TRUE, !.ticks[1] = @ + ticks]

SecondFrame(frameTime) ==
    \E second \in {Second} :
       /\ Racing(second.world)
       /\ second.now + frameTime <= MaxNow
       /\ \E w0 \in {[second.world EXCEPT !.cb = <<>>]},
             ticks \in {Ticks(second.world.engine, frameTime)},
             clock \in {second.now + frameTime} :
             \E pose \in {PoseAt(pair.ticks[2] + ticks)} :
                \E w \in {Collect(Engine_gameLoop(w0, Throttle, "none", pose, Null,
                                                 clock))} :
                   pair' = [forked |-> TRUE,
                            ticks |-> [pair.ticks EXCEPT ![2] = @ + ticks],
                            now |-> clock,
                            world |-> w]
       /\ UNCHANGED <<now, game, timer, ghostCar, physics, collision, localStorage,
                      heap, engine, menu, trackFiles, cb, last>>

NextPair ==
    \/ ClickPlay
    \/ \E f \in menu.pending : FetchDone(f)
    \/ CountdownTick
    \/ \E frameTime \in FrameDurations : FirstFrame(frameTime)
    \/ \E frameTime \in FrameDurations : SecondFrame(frameTime)

SpecPair == InitPair /\ [][NextPair]_vars

(***************************************************************************)
(* Properties                                                              *)
(***************************************************************************)
\* the last event was a tick of Game.update in which the vehicle was in a
\* checkpoint zone
Hit == last.op = "Frame" /\ last.ticked /\ last.checkpoint.hit

\* the zone hit was the one the cursor expected
Expected ==
    /\ game.totalCheckpoints # 0
    /\ last.checkpoint.index = last.cursor % game.totalCheckpoints

\* the callbacks of one kind the last handler fired
Fired(name) == SelectSeq(cb, LAMBDA e : e.name = name)

Indices(hits) == [i \in 1 .. Len(hits) |-> hits[i].index]

\* C1: in state playing with totalCheckpoints > 0, a hit of a checkpoint
\* other than (currentCheckpoint mod totalCheckpoints) changes neither the
\* cursor, the cached pose, the lap counter, the lap splits nor the game
\* state, and fires neither onCheckpoint nor onFinish.
C1_OutOfOrderHitIgnored ==
    (Hit /\ game.totalCheckpoints > 0 /\ ~Expected) =>
        /\ game.currentCheckpoint = last.cursor
        /\ game.lastCheckpointPosition = last.cachedPosition
        /\ game.lastCheckpointRotation = last.cachedRotation
        /\ timer.currentLap = last.lap
        /\ timer.lapTimes = last.splits
        /\ game.state = "playing"
        /\ Fired("onCheckpoint") = <<>>
        /\ Fired("onFinish") = <<>>

C1_Witness ==
    /\ Hit /\ game.totalCheckpoints > 0 /\ ~Expected
    /\ last.cursor > 1

\* the index of the finish line, and a lap in track order: the checkpoints
\* after the finish line, then the finish line
FinishIndex ==
    CHOOSE f \in 0 .. game.totalCheckpoints - 1 :
        \E i \in DOMAIN collision.checkpoints :
            collision.checkpoints[i].index = f /\ collision.checkpoints[i].isFinish

LapOrder ==
    [i \in 1 .. game.totalCheckpoints |-> (FinishIndex + i) % game.totalCheckpoints]

\* C2: every accepted finish-line hit comes after accepted hits of all the
\* other checkpoints, in order, since the race started or the finish line
\* was last accepted; staying in the finish zone counts no further lap.
C2_FinishAfterFullLap ==
    (Hit /\ last.checkpoint.isFinish /\ Fired("onCheckpoint") # <<>>) =>
        Indices(last.lapHits) = LapOrder

\* C3: after an accepted finish-line hit on a lap that is not the last, the
\* cursor is the one resetRace sets and the game is still playing.
C3_CursorResetAsResetRace ==
    (Hit /\ Expected /\ last.checkpoint.isFinish /\ last.lap < timer.totalLaps) =>
        /\ game.currentCheckpoint = Game_resetRace(World).game.currentCheckpoint
        /\ game.state = "playing"

\* a track of three checkpoints, the third the finish line, and two laps
ThreeCheckpointsTwoLaps ==
    /\ game.totalCheckpoints = 3
    /\ timer.totalLaps = 2
    /\ [i \in 1 .. 3 |-> collision.checkpoints[i].isFinish] = <<FALSE, FALSE, TRUE>>

\* C4: an accepted finish-line hit with currentLap = totalLaps finishes the
\* race; with currentLap < totalLaps it adds one to the lap counter, appends
\* one split and leaves the game playing.  On a track of 3 checkpoints
\* (finish = index 2) and 2 laps, hitting 0,1,2 makes the lap counter 2
\* without finishing and hitting 0,1,2 again finishes the race.
C4_FinishHit ==
    /\ (Hit /\ Expected /\ last.checkpoint.isFinish) =>
          /\ last.lap = timer.totalLaps => game.state = "finished"
          /\ last.lap < timer.totalLaps =>
                /\ timer.currentLap = last.lap + 1
                /\ Len(timer.lapTimes) = Len(last.splits) + 1
                /\ SubSeq(timer.lapTimes, 1, Len(last.splits)) = last.splits
                /\ game.state = "playing"
    /\ (Hit /\ ThreeCheckpointsTwoLaps) =>
          /\ last.trail = <<0, 1, 2>> =>
                timer.currentLap = 2 /\ game.state = "playing"
          /\ last.trail = <<0, 1, 2, 0, 1, 2>> => game.state = "finished"

C4_Witness ==
    /\ Hit /\ Expected /\ ThreeCheckpointsTwoLaps
    /\ last.trail = <<0, 1, 2, 0, 1, 2>>
    /\ last.lap = timer.totalLaps
    /\ Len(timer.lapTimes) = 1

\* what C5 says of every accepted hit but the cursor
AcceptedHitEffects ==
    /\ game.lastCheckpointPosition = last.pose.position
    /\ game.lastCheckpointRotation = last.pose.rotation
    /\ Fired("onCheckpoint") =
          <<[name |-> "onCheckpoint", index |-> last.checkpoint.index,
             isFinish |-> last.checkpoint.isFinish, cursor |-> last.cursor + 1]>>
    /\ \A i, j \in DOMAIN cb :
          cb[i].name = "onCheckpoint" /\ cb[j].name = "onFinish" => i < j

\* C5 as stated: an accepted hit advances the cursor by exactly one, caches
\* the vehicle's position and yaw, and fires onCheckpoint exactly once with
\* the checkpoint's index and finish flag, before any onFinish; hitting
\* checkpoint 1 then checkpoint 2 advances the cursor twice.
C5_AcceptedHitAdvances ==
    /\ (Hit /\ Expected) =>
          AcceptedHitEffects /\ game.currentCheckpoint = last.cursor + 1
    /\ (Hit /\ game.totalCheckpoints = 3 /\ last.trail = <<1, 2>>) =>
          game.currentCheckpoint = 3

\* the accepted hit was the finish line of a lap that is not the last
LapCompleted == last.checkpoint.isFinish /\ last.lap < timer.totalLaps

\* C5, amended: on an accepted hit the cursor is one more when onCheckpoint
\* fires, and still at the end of the tick unless the hit completed a lap
\* that is not the last, after which handleFinish has set the cursor anew;
\* the cached pose is the vehicle's and onCheckpoint fires exactly once with
\* the checkpoint's index and finish flag, before any onFinish.  Hitting
\* checkpoint 1 then checkpoint 2 is two accepted hits.
C5_AcceptedHitAdvancesUntilLapEnd ==
    /\ (Hit /\ Expected) =>
          /\ AcceptedHitEffects
          /\ LapCompleted \/ game.currentCheckpoint = last.cursor + 1
    /\ (Hit /\ game.totalCheckpoints = 3 /\ last.trail = <<1, 2>>) =>
          /\ Indices(last.lapHits) = <<1, 2>>
          /\ LapCompleted \/ game.currentCheckpoint = 3

C5_Witness ==
    /\ Hit /\ Expected /\ game.totalCheckpoints = 3
    /\ last.trail = <<1, 2>>
    /\ game.currentCheckpoint = 3
    /\ <<last.pose.position, last.pose.rotation>> # <<game.spawnPosition, game.spawnRotation>>

\* the best time stored for a track, null when there is none
StoredBest(ls, trackId) ==
    IF HasItem(ls, BestKey(trackId)) THEN parseFloat(ls[BestKey(trackId)]) ELSE Null

\* the time improves on the best stored for the track
Improves(ls, trackId, time) ==
    StoredBest(ls, trackId) = Null \/ time < StoredBest(ls, trackId)

\* C6: over all sequences of track loads and finished races, a finish
\* writes the track's stored best time if and only if its time is strictly
\* less than the stored one or none is stored; otherwise the stored value
\* and Timer.bestTime stay as they were and saveBestTime returns false.
C6_BestTimeWrittenIffImproved ==
    [][\A i \in DOMAIN cb' :
          cb'[i].name = "onFinish" =>
             LET id == game.currentTrackId
                 time == cb'[i].time
             IN /\ cb'[i].isNewRecord = Improves(localStorage, id, time)
                /\ Improves(localStorage, id, time) =>
                      /\ StoredBest(localStorage', id) = time
                      /\ localStorage'[BestKey(id)] = toString(time)
                      /\ timer'.bestTime = time
                /\ ~Improves(localStorage, id, time) =>
                      /\ localStorage' = localStorage
                      /\ timer'.bestTime = timer.bestTime
                /\ \A t \in TrackIds \ {id} :
                      StoredBest(localStorage', t) = StoredBest(localStorage, t)
      ]_vars

C6_Witness ==
    \E i \in DOMAIN cb :
       /\ cb[i].name = "onFinish"
       /\ ~cb[i].isNewRecord
       /\ cb[i].time = cb[i].bestTime
       /\ game.currentTrackId = "track1"
       /\ StoredBest(localStorage, "track2") # Null

Increasing(data) == \A i \in 1 .. Len(data) - 1 : data[i].time < data[i + 1].time

FinishFired(events) == \E i \in DOMAIN events : events[i].name = "onFinish"

RecordFired(events) ==
    \E i \in DOMAIN events : events[i].name = "onFinish" /\ events[i].isNewRecord

\* C7: the trajectory stopRecording returns at the finish is in strictly
\* increasing timestamp order, and a frame that sets no record leaves the
\* loaded best ghost as it was: recording does not append to it.
C7_RecordingKeepsBestGhost ==
    [][/\ FinishFired(cb') => Increasing(heap'[ghostCar'.recordedData])
       /\ (last'.op = "Frame" /\ game.currentGhostData # NullRef /\ ~RecordFired(cb')) =>
             /\ game'.currentGhostData # NullRef
             /\ heap'[game'.currentGhostData] = heap[game.currentGhostData]
      ]_vars

\* C8: a finish stops the timer, the recording and the playback; on a strict
\* improvement the best time and the recorded ghost are stored under the
\* same track's keys and the ghost becomes the current best ghost; otherwise
\* the store and the current best ghost stay as they were.
C8_FinishPersists ==
    [][\A i \in DOMAIN cb' :
          cb'[i].name = "onFinish" =>
             LET id == game.currentTrackId
                 time == cb'[i].time
             IN /\ ~timer'.isRunning
                /\ ~ghostCar'.isRecording
                /\ ~ghostCar'.isPlaying
                /\ Improves(localStorage, id, time) =>
                      /\ DOMAIN localStorage' =
                            DOMAIN localStorage \cup {BestKey(id), GhostKey(id)}
                      /\ localStorage'[BestKey(id)] = toString(time)
                      /\ localStorage'[GhostKey(id)] =
                            JSON_stringify(heap'[ghostCar'.recordedData])
                      /\ game'.currentGhostData = ghostCar'.recordedData
                      /\ \A k \in DOMAIN localStorage \ {BestKey(id), GhostKey(id)} :
                            localStorage'[k] = localStorage[k]
                /\ ~Improves(localStorage, id, time) =>
                      /\ localStorage' = localStorage
                      /\ (game.currentGhostData = NullRef) =
                            (game'.currentGhostData = NullRef)
                      /\ game.currentGhostData # NullRef =>
                            heap'[game'.currentGhostData] = heap[game.currentGhostData]
      ]_vars

C8_Witness ==
    /\ RecordFired(cb)
    /\ game.currentTrackId = "track2"
    /\ HasItem(localStorage, GhostKey("track2"))
    /\ HasItem(localStorage, GhostKey("track1"))

\* C9: while the game is paused and when it resumes, the timer (lap
\* boundary, lap counter), the cursor and the ghost stay as they were, and
\* the race clock, the elapsed time the next tick's Timer.update reads, does
\* not advance.
C9_ClockFrozenWhilePaused ==
    [][game.state = "paused" /\ game'.state \in {"paused", "playing"} =>
             /\ timer' = timer
             /\ game'.currentCheckpoint = game.currentCheckpoint
             /\ ghostCar' = ghostCar
             /\ heap' = heap
             /\ timer.isRunning =>
                   now' - timer'.startTime = now - timer.startTime
      ]_vars

\* C10: two runs that have executed the same fixed ticks, under the same
\* inputs, have recorded the same ghost trajectory and show the ghost in the
\* same pose, whatever the durations of their render frames.
C10_SameTicksSameGhost ==
    pair.ticks[1] = pair.ticks[2] =>
        /\ heap[ghostCar.recordedData] =
              Second.world.heap[Second.world.ghostCar.recordedData]
        /\ ghostCar.meshPosition = Second.world.ghostCar.meshPosition
        /\ ghostCar.meshQuaternion = Second.world.ghostCar.meshQuaternion
        /\ ghostCar.isPlaying = Second.world.ghostCar.isPlaying

\* the steps of the last frame, in the order they ran
Order == last.order

\* step i of the frame is a physics step followed, before the next physics
\* step, by the barrier resolution, then the progression update, then the
\* timer update
FullTick(i) ==
    \E b, p, t \in DOMAIN Order :
       /\ i < b /\ b < p /\ p < t
       /\ Order[b] = "barrier" /\ Order[p] = "checkpoint" /\ Order[t] = "timer"
       /\ \A k \in (i + 1) .. t : Order[k] # "physics"

\* C11: in a frame whose race is running, every physics step is followed,
\* before the next physics step, by barrier-collision resolution, then the
\* progression update, then the timer update: collision and progression run
\* once per fixed tick.
C11_TickFullyOrdered ==
    (last.op = "Frame" /\ last.ticked) =>
        \A i \in DOMAIN Order : Order[i] = "physics" => FullTick(i)

\* the race has started and waits for the first input
Latched == game.state = "playing" /\ game.waitingForStart

\* the step is a tick of Game.update
Updates == last'.op = "Frame" /\ last'.updated

\* what holds while the latch is closed: the timer does not run, the elapsed
\* time is 0, and the ghost neither records nor plays
LatchClosed ==
    Latched =>
        /\ ~timer.isRunning
        /\ timer.currentTime = 0
        /\ ~ghostCar.isRecording
        /\ ~ghostCar.isPlaying

\* C12: while the latch is closed the timer does not run, the elapsed time
\* is 0 and the ghost is idle; a tick whose control input is all zero
\* processes no boost pad and no checkpoint and records nothing; the first
\* tick whose control input has a nonzero field (throttle, brake, steer or
\* drift) starts the timer, the recording and the playback of the best
\* ghost, if any; and the latch closes again only when a race starts.
C12_StartLatch ==
    [][/\ LatchClosed /\ LatchClosed'
       /\ (Latched /\ Updates /\ last'.input = ZeroInput) =>
             /\ Latched'
             /\ ~last'.ticked
             /\ cb' = <<>>
             /\ heap' = heap
       /\ (Latched /\ Updates /\ last'.input # ZeroInput) =>
             /\ ~game'.waitingForStart
             /\ game'.state = "finished" \/
                   /\ timer'.isRunning
                   /\ timer'.startTime = now'
                   /\ ghostCar'.isRecording
                   /\ game.currentGhostData # NullRef /\ heap[game.currentGhostData] # <<>>
                         => ghostCar'.isPlaying \/ Len(heap[game.currentGhostData]) = 1
       /\ (~game.waitingForStart /\ game'.waitingForStart) => last'.op = "CountdownTick"
      ]_vars

\* a race is on: counting down, running or paused
InRace == game.state \in {"countdown", "playing", "paused"}

\* the step is the completion of a track fetch: Game.loadTrack clears the
\* collision set and builds the track
Builds == last'.op = "FetchDone"

\* the step starts a race
RaceStarts == game.state = "countdown" /\ game'.state = "playing"

\* C13: whatever the order in which the fetches of onTrackSelect and onPlay
\* complete among the menu callbacks, no track is built and the collision set
\* is not replaced while the game is counting down, playing or paused, and
\* when a race starts the geometry loaded is that of the track the Play click
\* asked for.
C13_GeometrySwappedBetweenRaces ==
    [][/\ InRace => ~Builds /\ collision' = collision
       /\ RaceStarts =>
             /\ game'.currentTrackId = last'.played
             /\ collision' = Builder_build(game.trackBuilder, collision,
                                           trackFiles[last'.played])
      ]_vars

\* the values Game.state takes during the step, from the one it starts with
StatePath == <<game.state>> \o last'.states

\* the transitions of Game.state the race life cycle has
StateEdge(from, to) ==
    \/ from = to
    \/ to = "ready"
    \/ <<from, to>> \in {<<"ready", "countdown">>, <<"countdown", "playing">>,
                         <<"playing", "paused">>, <<"paused", "playing">>,
                         <<"playing", "finished">>}

\* C14: Game.state changes only along any -> ready, ready -> countdown,
\* countdown -> playing (on a tick of the countdown), playing -> paused,
\* paused -> playing and playing -> finished; playing is never entered from
\* menu, ready or finished, and paused and finished only from playing.
C14_StateTransitions ==
    [][/\ game'.state = StatePath[Len(StatePath)]
       /\ \A i \in 1 .. (Len(StatePath) - 1) :
             /\ StateEdge(StatePath[i], StatePath[i + 1])
             /\ (StatePath[i] = "countdown" /\ StatePath[i + 1] = "playing")
                   => last'.op = "CountdownTick"
       /\ (game.state # "playing" /\ game'.state = "playing")
             => game.state \in {"countdown", "paused"}
       /\ (game.state # game'.state /\ game'.state \in {"paused", "finished"})
             => game.state = "playing"
      ]_vars

\* a restart from the pause menu went through ready to countdown
C14_Witness ==
    last.op = "ClickRestart" /\ last.states = <<"ready", "countdown">>
       /\ game.state = "countdown"

\* resetToCheckpoint was called in the step, and the objects before and after
ResetCalled == last.reset.called
ResetFrom == last.reset.from
ResetTo == last.reset.to

\* the call left the clock, the cursor, the cached pose and the ghost alone
ResetKeepsRace ==
    /\ ResetTo.timer = ResetFrom.timer
    /\ ResetTo.game = ResetFrom.game
    /\ ResetTo.ghostCar = ResetFrom.ghostCar

\* the call put the vehicle at rest at the cached place and heading
ResetRestoresPlace ==
    /\ ResetTo.physics.position = ResetFrom.game.lastCheckpointPosition
    /\ ResetTo.physics.rotation = ResetFrom.game.lastCheckpointRotation
    /\ ResetTo.physics.speed = 0

\* the statement of C15 as made: resetToCheckpoint outside playing changes
\* nothing; in playing it puts the vehicle at the cached checkpoint pose,
\* height included, at rest, and leaves the clock, the cursor, the cached
\* pose and the ghost unchanged.
C15_ResetRestoresCachedPose ==
    ResetCalled =>
        IF ResetFrom.game.state # "playing" THEN ResetTo = ResetFrom
        ELSE /\ ResetRestoresPlace
             /\ ResetTo.physics.positionY = ResetFrom.game.lastCheckpointPositionY
             /\ ResetKeepsRace

\* C15: resetToCheckpoint outside playing changes nothing; in playing it puts
\* the vehicle at rest at the cached checkpoint place and heading, half a
\* metre (ResetLift) above the cached height, and leaves the clock (running
\* flag, start time, lap counter, splits), the cursor, the cached pose and
\* the ghost recording and playback unchanged.
C15_ResetRestoresLiftedPose ==
    ResetCalled =>
        IF ResetFrom.game.state # "playing" THEN ResetTo = ResetFrom
        ELSE /\ ResetRestoresPlace
             /\ ResetTo.physics.positionY
                   = ResetFrom.game.lastCheckpointPositionY + ResetLift
             /\ ResetKeepsRace

\* a reset during a timed lap, after a checkpoint was accepted away from the
\* spawn point, of a moving vehicle that had left the cached pose
C15_Witness ==
    /\ ResetCalled /\ ResetFrom.game.state = "playing"
    /\ ResetFrom.timer.isRunning /\ ResetFrom.ghostCar.isRecording
    /\ ResetFrom.game.currentCheckpoint > 1
    /\ ResetFrom.physics.speed = 1
    /\ ResetFrom.physics.position # ResetFrom.game.lastCheckpointPosition

\* the engine skips the updates
EnginePaused == engine.isPaused \/ engine.state # "playing"

\* the step is a frame of gameLoop
FrameStep == last'.op = "Frame"

\* how many times the frame's gameLoop made the call
RECURSIVE Calls(_, _)
Calls(order, name) ==
    IF order = <<>> THEN 0
    ELSE (IF Head(order) = name THEN 1 ELSE 0) + Calls(Tail(order), name)

\* C16: in a frame taken while the engine is paused (isPaused, or state not
\* playing) gameLoop calls neither onFixedUpdate nor onUpdate, only onRender,
\* and the accumulator and everything a tick changes stay as they were; a
\* frame taken while the engine runs, the first after a resume included,
\* runs the fixed steps of the accumulator and of its own duration, none for
\* the time spent paused.
C16_PausedEngineSkipsUpdates ==
    [][/\ (FrameStep /\ EnginePaused) =>
             /\ last'.order = <<"onRender">>
             /\ engine'.accumulator = engine.accumulator
             /\ UNCHANGED <<game, timer, ghostCar, physics, collision, localStorage,
                            heap, cb>>
       /\ (FrameStep /\ ~EnginePaused) =>
             /\ Calls(last'.order, "onUpdate") = 1
             /\ Calls(last'.order, "onRender") = 1
             /\ Calls(last'.order, "onFixedUpdate")
                   = FixedSteps(engine.accumulator, Min(now' - now, MaxFrameDelta))
      ]_vars

\* a frame rendered while the engine is paused, after frames of the race
\* left a remainder in the accumulator
C16_Witness ==
    /\ last.op = "Frame" /\ last.order = <<"onRender">>
    /\ engine.isPaused /\ engine.state = "paused"
    /\ engine.accumulator = 1
    /\ timer.isRunning

\* the countdown is on
Counting == game.state = "countdown"

\* C17: once startCountdown has run, the game is in state countdown until
\* the race is reset or the interval's callback, having shown 3, 2, 1 and
\* GO!, starts the race; and unless the race is reset meanwhile, the state
\* does become playing.
C17_CountdownElapses ==
    /\ [][Counting =>
             \/ game'.state = "countdown" /\ game'.countdownInterval
                   /\ game'.count \in {game.count, game.count - 1, 3}
             \/ game'.state = "playing" /\ last'.op = "CountdownTick" /\ game.count = 0
             \/ game'.state = "ready" /\ (\E i \in DOMAIN last'.states : last'.states[i] = "ready")
         ]_vars
    /\ Counting ~> (game.state \in {"playing", "ready"})

\* the race started by the callback that follows GO!
C17_Witness ==
    /\ last.op = "CountdownTick" /\ last.states = <<"playing">>
    /\ game.state = "playing" /\ game.count = -1 /\ ~game.countdownInterval

\* the best time stored for the track is no number
BestUnparsable(ls, trackId) ==
    HasItem(ls, BestKey(trackId)) /\ parseFloat(ls[BestKey(trackId)]) = NaN

\* the ghost stored for the track is no JSON text
GhostUnparsable(ls, trackId) ==
    HasItem(ls, GhostKey(trackId)) /\ JSON_parseThrows(ls[GhostKey(trackId)])

\* the step finishes the race
Finishes == game.state = "playing" /\ game'.state = "finished"

\* the finish was reported as a record of the time the timer stopped at
RecordOf(events, time) ==
    \E i \in DOMAIN events :
       events[i].name = "onFinish" /\ events[i].isNewRecord /\ events[i].time = time

\* C18: a stored best time that cannot be parsed counts as no record: the
\* finish that follows the track's load is reported as a new record and its
\* time is stored; a stored ghost that cannot be parsed loads no ghost, and
\* the load completes.
C18_UnparsableStoreIsNoRecord ==
    [][/\ (Finishes /\ BestUnparsable(localStorage, game.currentTrackId)) =>
             /\ RecordOf(cb', timer'.currentTime)
             /\ localStorage'[BestKey(game.currentTrackId)] = toString(timer'.currentTime)
       /\ (last'.op = "FetchDone" /\ GhostUnparsable(localStorage, game'.currentTrackId)) =>
             /\ game'.currentGhostData = NullRef
             /\ game'.state \in {"ready", "countdown"}
      ]_vars

\* the data of the track the game holds has fewer than 2 points
TooFewPoints == trackFiles[game.currentTrackId].points < 2

\* C19: the build of a track with fewer than 2 points does not return
\* without a result, and the game is never in countdown or playing on such a
\* track, whose build has emptied the collision set.
C19_ShortTrackFailsFast ==
    /\ last.build # "undefined"
    /\ TooFewPoints => game.state \notin {"countdown", "playing"}

\* the callbacks of the progression among the events
Progressed(events) ==
    \E i \in DOMAIN events : events[i].name \in {"onCheckpoint", "onLap", "onFinish"}

\* the tick ran the timer, the boost check, the ghost and the barrier check
TickProceeds ==
    /\ Calls(last'.order, "timer") = 1 /\ Calls(last'.order, "boost") = 1
    /\ Calls(last'.order, "checkpoint") = 1 /\ Calls(last'.order, "barrier") = 1
    /\ timer'.isRunning /\ timer'.currentTime = now' - timer'.startTime
    /\ ghostCar'.isRecording
    /\ Len(heap'[ghostCar'.recordedData]) >= Len(heap[ghostCar.recordedData])
    /\ CollisionSystem_checkBoostPad(collision, physics'.position)
          => \E i \in DOMAIN cb' : cb'[i].name = "onBoost"

\* C20: on a track with zero checkpoints a frame changes neither the cursor
\* nor the cached pose nor the state, the lap counter stays at the lap the
\* start of the timer set and no split is taken, no checkpoint, lap or
\* finish callback fires, and a tick past the start latch still runs the
\* timer, the boost check, the ghost and the barrier check.
C20_NoCheckpointsNoProgress ==
    [][(FrameStep /\ game.state = "playing" /\ game.totalCheckpoints = 0) =>
          /\ game'.currentCheckpoint = game.currentCheckpoint
          /\ game'.lastCheckpointPosition = game.lastCheckpointPosition
          /\ game'.lastCheckpointPositionY = game.lastCheckpointPositionY
          /\ game'.lastCheckpointRotation = game.lastCheckpointRotation
          /\ timer'.currentLap = (IF last'.ticked THEN 1 ELSE timer.currentLap)
          /\ timer'.lapTimes = <<>>
          /\ game'.state = "playing"
          /\ ~Progressed(cb')
          /\ last'.ticked => TickProceeds
      ]_vars

\* a tick on the boost pad of the track without checkpoints, the clock
\* running and the ghost recorded
C20_Witness ==
    /\ last.op = "Frame" /\ last.ticked
    /\ game.totalCheckpoints = 0 /\ collision.checkpoints = <<>>
    /\ \E i \in DOMAIN cb : cb[i].name = "onBoost"
    /\ timer.isRunning /\ timer.currentTime > 0
    /\ heap[ghostCar.recordedData] # <<>>


\* the trajectory startPlayback was given in this step has at most one frame
ShortPlayback == last'.playback.started /\ last'.playback.frames <= 1

MeshUnmoved ==
    /\ ghostCar'.meshPosition = ghostCar.meshPosition
    /\ ghostCar'.meshQuaternion = ghostCar.meshQuaternion

\* C21 as stated: after startPlayback with an empty or single-frame
\* trajectory the ghost is not moved, is not made visible and isPlaying
\* is false, when startPlayback returns and after the updates that follow.
C21_ShortPlaybackIsNoOp ==
    [][/\ ShortPlayback =>
            /\ MeshUnmoved
            /\ ~last'.playback.isPlaying /\ ~last'.playback.meshVisible
            /\ ~ghostCar'.isPlaying /\ ~ghostCar'.meshVisible
       /\ (~ghostCar.isPlaying /\ ~last'.playback.started) =>
            MeshUnmoved /\ ~ghostCar'.isPlaying /\ ~ghostCar'.meshVisible]_vars

\* C21 amended: startPlayback with an empty trajectory leaves playback
\* inactive and the ghost hidden; with a single-frame trajectory it leaves
\* playback active and the ghost visible, and the first update, in the same
\* tick, stops playback and hides the ghost; in both cases the ghost is
\* never moved, and no later update moves it, shows it or makes playback
\* active.
C21_ShortPlaybackEndsAtFirstUpdate ==
    [][/\ ShortPlayback =>
            /\ MeshUnmoved
            /\ last'.playback.isPlaying = (last'.playback.frames = 1)
            /\ last'.playback.meshVisible = (last'.playback.frames = 1)
            /\ ~ghostCar'.isPlaying /\ ~ghostCar'.meshVisible
       /\ (~ghostCar.isPlaying /\ ~last'.playback.started) =>
            MeshUnmoved /\ ~ghostCar'.isPlaying /\ ~ghostCar'.meshVisible]_vars

\* a tick has started playback of a single-frame trajectory and stopped it
C21_Witness ==
    last.playback.started /\ last.playback.frames = 1 /\ last.playback.isPlaying
    /\ ~ghostCar.isPlaying


\* the step was applyCollision on a velocity going into the barrier
Inward == last'.op = "applyCollision" /\ VelocityDot(physics.velocity, last'.barrier.normal) < 0

\* C22: for every velocity and every normal checkBarrierCollision returns,
\* a velocity component along the normal that is negative before
\* applyCollision is zero or positive after it.
C22_InwardVelocityRemoved ==
    [][Inward => VelocityDot(physics'.velocity, last'.barrier.normal) >= 0]_vars


\* the velocity's component along a unit axis is the same before and after
\* the step
KeepsAlong(axis) ==
    Dot(physics'.velocity.v, axis) * physics.velocity.den
        = Dot(physics.velocity.v, axis) * physics'.velocity.den

\* C23: applyBoost(multiplier) sets the velocity component along the
\* forward axis to min(speed * multiplier, maxSpeed * 1.2) and leaves the
\* lateral and the vertical components as they were.
C23_BoostKeepsLateral ==
    [][last'.op = "applyBoost" =>
          /\ Dot(physics'.velocity.v, Forward(physics.yaw)) * 5
                = BoostSpeed(physics.speed, 6) * physics'.velocity.den
          /\ KeepsAlong(Right(physics.yaw))
          /\ KeepsAlong(<<0, 1, 0>>)]_vars


\* the ghost stored for the track that is loaded
StoredGhost == localStorage[GhostKey(game.currentTrackId)]

\* C24: the ghost played back at a race start is the stored best ghost of
\* the track that is loaded, and on a track without a stored ghost none is
\* played back.
C24_GhostOfCurrentTrack ==
    [][last'.playback.started =>
          /\ HasItem(localStorage, GhostKey(game.currentTrackId))
          /\ ~JSON_parseThrows(StoredGhost)
          /\ heap'[ghostCar'.recordedData] = JSON_parse(StoredGhost)]_vars


\* C25: whenever the game's state and the engine's state are both playing,
\* Engine.isPaused is false, so that the frames of the race are processed.
C25_PlayingIsNotPaused ==
    (game.state = "playing" /\ engine.state = "playing") => ~engine.isPaused


\* the step is a countdown's last callback: it called startRace
StartsRace ==
    /\ last'.op = "CountdownTick"
    /\ \E i \in DOMAIN last'.states : last'.states[i] = "playing"

\* C26: at most one countdown interval runs at any time, and startRace is
\* called only by a countdown that no resetRace has interrupted since it
\* began: the state it leaves is still countdown.
C26_OnlyLiveCountdownStartsRace ==
    [][/\ Len(game'.intervals) <= 1
       /\ StartsRace => game.state = "countdown"]_vars


\* the onFinish calls of the step
FinishCalls == {i \in DOMAIN cb' : cb'[i].name = "onFinish"}

\* a <= b of two JavaScript numbers
NumLeq(a, b) == a \notin {NaN, Null} /\ b \notin {NaN, Null} /\ a <= b

\* C27: onFinish is called at most once per attempt and only in the tick
\* in which the state becomes finished; its bestTime is at most its time,
\* and isNewRecord is true exactly when the time is less than the best
\* time before the finish or there was none, in which case bestTime is the
\* time; the finished state is left only by resetRace, and no tick of a
\* finished race changes the timer, the cursor or the ghost data.
C27_FinishReportedOnce ==
    [][/\ Cardinality(FinishCalls) = (IF Finishes THEN 1 ELSE 0)
       /\ FinishCalls # {} => last'.op = "Frame"
       /\ \A i \in FinishCalls :
             /\ cb'[i].time = timer'.currentTime
             /\ NumLeq(cb'[i].bestTime, cb'[i].time)
             /\ cb'[i].isNewRecord
                   = (timer.bestTime = Null \/ NumLess(cb'[i].time, timer.bestTime))
             /\ cb'[i].isNewRecord => cb'[i].bestTime = cb'[i].time
             /\ ~cb'[i].isNewRecord => cb'[i].bestTime = timer.bestTime
       /\ (game.state = "finished" /\ game'.state # "finished") =>
             (last'.states # <<>> /\ last'.states[1] = "ready")
       /\ (game.state = "finished" /\ game'.state = "finished") =>
             /\ timer' = timer
             /\ game'.currentCheckpoint = game.currentCheckpoint
             /\ game'.currentGhostData = game.currentGhostData
             /\ ghostCar' = ghostCar
             /\ heap' = heap
             /\ localStorage' = localStorage]_vars


\* the trajectory the recorder holds
Recorded == heap[ghostCar.recordedData]

\* the step is a recordFrame call that the recorder takes
Taken ==
    /\ last'.op = "recordFrame"
    /\ ghostCar.isRecording
    /\ last'.time - ghostCar.lastRecordTime >= RecordInterval

Apart(times) ==
    \A i \in 1 .. Len(times) - 1 : times[i + 1] - times[i] >= RecordInterval

\* C28: the frames recordFrame appends in a recording are at least
\* recordInterval apart; a recordFrame call less than recordInterval after
\* the last recorded time, or made while not recording, leaves the
\* trajectory and lastRecordTime as they were, any other call appends its
\* frame; each startRecording begins from an empty trajectory.
C28_FramesAreSpaced ==
    [][/\ Apart(last'.appended)
       /\ (last'.op = "recordFrame" /\ ~Taken) =>
             /\ Recorded' = Recorded
             /\ ghostCar'.lastRecordTime = ghostCar.lastRecordTime
       /\ Taken =>
             /\ Recorded' = Append(Recorded, [time |-> last'.time, position |-> 1,
                                              quaternion |-> 0])
             /\ ghostCar'.lastRecordTime = last'.time
       /\ last'.op = "startRecording" =>
             Recorded' = <<>> /\ ghostCar'.isRecording /\ ghostCar'.lastRecordTime = 0
      ]_vars

\* two frames were recorded in one recording, and a third call was refused
C28_Witness ==
    /\ last.op = "recordFrame" /\ Len(last.appended) = 2 /\ last.time = 0
    /\ ghostCar.isRecording


\* the blend parameter update left in the ghost's pose is a number of [0, 1]
BlendInRange(pose) == pose.den > 0 /\ 0 <= pose.num /\ pose.num <= pose.den

\* playbackIndex does not decrease in an update and, while playback is
\* active, is an index of the trajectory
IndexInBounds ==
    /\ last'.op = "update" => ghostCar'.playbackIndex >= ghostCar.playbackIndex
    /\ ghostCar'.isPlaying => ghostCar'.playbackIndex \in 0 .. Len(Recorded') - 1

\* C29 as stated: update never evaluates the ratio with a zero time delta
\* between the two frames, the blend parameter is within [0, 1], and
\* playbackIndex never decreases and stays within the trajectory.
C29_NoZeroDelta ==
    [][/\ last'.t.evaluated =>
             /\ last'.t.den # 0
             /\ BlendInRange(ghostCar'.meshPosition)
             /\ BlendInRange(ghostCar'.meshQuaternion)
       /\ IndexInBounds]_vars

\* C29 amended: update divides by a zero time delta only when the two
\* frames share a timestamp later than the current time; the ratio is then
\* -Infinity, never NaN, and the blend parameter is clamped to 0; in every
\* update the blend parameter is within [0, 1], and playbackIndex never
\* decreases and stays within the trajectory.
C29_ZeroDeltaClampsToZero ==
    [][/\ last'.t.evaluated =>
             /\ last'.t.den = 0 =>
                   /\ last'.t.num < 0
                   /\ ghostCar'.meshPosition.num = 0
                   /\ ghostCar'.meshQuaternion.num = 0
             /\ BlendInRange(ghostCar'.meshPosition)
             /\ BlendInRange(ghostCar'.meshQuaternion)
       /\ IndexInBounds]_vars

\* an update has divided by a zero time delta, and playback goes on
C29_Witness ==
    /\ last.op = "update" /\ last.t.evaluated /\ last.t.den = 0
    /\ ghostCar.isPlaying /\ ghostCar.meshPosition.num = 0


\* the most fixed updates of a frame: (0.1 + fixedDeltaTime) /
\* fixedDeltaTime, rounded up
MostFixedUpdates ==
    (MaxFrameDelta + FixedDeltaTime + FixedDeltaTime - 1) \div FixedDeltaTime

\* C30: after every frame of gameLoop in which ticks are processed the
\* accumulator is at least 0 and less than fixedDeltaTime; the loop ends,
\* having run at most MostFixedUpdates fixed updates, and each of them took
\* exactly fixedDeltaTime from the accumulator, to which the frame had
\* added its duration, capped at 0.1 s.
C30_AccumulatorBounded ==
    [][(FrameStep /\ ~EnginePaused) =>
          /\ 0 <= engine'.accumulator /\ engine'.accumulator < FixedDeltaTime
          /\ Calls(last'.order, "onFixedUpdate") <= MostFixedUpdates
          /\ engine.accumulator + Min(now' - engine.lastTime, MaxFrameDelta)
                = engine'.accumulator
                  + Calls(last'.order, "onFixedUpdate") * FixedDeltaTime]_vars

\* a frame that came later than the cap has run six fixed updates and left
\* the remainder it found
C30_Witness ==
    /\ last.op = "Frame" /\ Calls(last.order, "onFixedUpdate") = 6
    /\ engine.accumulator = 1 /\ now - 14 >= 0 /\ engine.lastTime = now

=============================================================================
